---- MODULE Spec2Model ----
(***************************************************************************)
(* Customer record management engine of core-banking's customer-service:   *)
(* the Record Store (repository) with optimistic concurrency, the          *)
(* Validator's status-transition state machine, and the Orchestrator       *)
(* (service layer) whose request handlers interleave between repository    *)
(* calls.  Every repository call is one atomic SQL statement; the code of  *)
(* a handler between two repository calls is local to its worker.          *)
(*                                                                         *)
(* Not modelled: timestamps (created_at / updated_at), the columns that    *)
(* no handler branches on (names, phone, date of birth, street lines ...)  *)
(* beyond one representative each, and the transport layer.                *)
(***************************************************************************)
EXTENDS Integers, Sequences, FiniteSets, TLC

(* ------------------------------ bounds -------------------------------- *)

\* longest plaintext handed to the Encryptor
MaxPlaintext == 2

\* the customer row is not updated past this version
MaxVersion == 3
\* rows the addresses table can hold
MaxAddresses == 2
\* rows the customer_documents table can hold
MaxDocuments == 1

\* independently scheduled request workers
Workers == {1, 2}
\* identifiers (uuid) a customer can have
CustomerIDs == {"c1"}
\* well-formed e-mail addresses a request can carry
Emails == {"ada@example.com", "ada.l@example.com"}
\* well-formed phone numbers a request can carry
Phones == {"+15550100"}

(* --------------------------- domain model ----------------------------- *)

CustomerStatusPending == "Pending"
CustomerStatusActive == "Active"
CustomerStatusInactive == "Inactive"
CustomerStatusSuspended == "Suspended"
CustomerStatusClosed == "Closed"

Statuses ==
    {CustomerStatusPending, CustomerStatusActive, CustomerStatusInactive,
     CustomerStatusSuspended, CustomerStatusClosed}

VerificationStatusPending == "Pending"
VerificationStatusVerified == "Verified"

\* the document types requests are drawn from
DocumentTypes == {"Passport", "TaxID", "UtilityBill"}

\* versions an update request can carry: 0 is the absent field, the others
\* are the versions a row can be read at before it is updated
RequestVersions == 0..(MaxVersion - 1)

\* street lines a request can carry
Streets == {"1 Main St"}

\* well-formed identifiers (uuid.Parse succeeds): those a customer can have
\* and one that no customer ever has
UUIDs == CustomerIDs \cup {"c0"}

\* An instant is an hour of the civil calendar (UTC), written as the number
\* YYYYMMDDHH, so that the order of the numbers is the order of the
\* instants; 0 is the timestamp that is not set.
IsLeap(year) == (year % 4 = 0 /\ year % 100 # 0) \/ year % 400 = 0

\* the number of days of a month
DaysIn(year, month) ==
    IF month = 2 THEN (IF IsLeap(year) THEN 29 ELSE 28)
    ELSE IF month \in {4, 6, 9, 11} THEN 30 ELSE 31

\* time.Date: a day past the end of its month is a day of the next month
Date(year, month, day, hour) ==
    LET over == day > DaysIn(year, month)
        y == IF over /\ month = 12 THEN year + 1 ELSE year
        m == IF over THEN (IF month = 12 THEN 1 ELSE month + 1) ELSE month
        d == IF over THEN day - DaysIn(year, month) ELSE day
    IN  ((y * 100 + m) * 100 + d) * 100 + hour

YearOf(t) == t \div 1000000
MonthOf(t) == (t \div 10000) % 100
DayOf(t) == (t \div 100) % 100
HourOf(t) == t % 100

\* t.AddDate(years, 0, 0): the same month, day and hour of another year,
\* normalised as time.Date does
AddDate(t, years) ==
    Date(YearOf(t) + years, MonthOf(t), DayOf(t), HourOf(t))

\* time.Now() while the handlers run
Now == Date(2026, 11, 1, 12)

Digits == {"0", "1", "2", "3", "4", "5", "6", "7", "8", "9"}

UpperLetters ==
    {"A", "B", "C", "D", "E", "F", "G", "H", "I", "J", "K", "L", "M",
     "N", "O", "P", "Q", "R", "S", "T", "U", "V", "W", "X", "Y", "Z"}

\* tax identifiers, as their sequences of characters
TaxIDHyphenated == <<"1", "2", "3", "-", "4", "5", "-", "6", "7", "8", "9">>
TaxIDPlain == <<"1", "2", "3", "4", "5", "6", "7", "8", "9">>
TaxIDShort == <<"1", "2", "3">>
TaxIDLetters == <<"A", "B", "1", "2", "3", "4", "5">>

\* a customer object that holds no row (the zero value)
NoCustomer ==
    [id |-> "", customerNumber |-> 0, taxId |-> << >>, status |-> "", email |-> "",
     phone |-> "", dateOfBirth |-> 0, createdBy |-> "", version |-> 0]

VARIABLES
    customers,      \* table customers: id -> [customerNumber, taxId, status, email,
                    \* phone, dateOfBirth, createdBy, version]
    addresses,      \* table addresses: id -> [customerId, isPrimary]
    documents,      \* table customer_documents: id -> [customerId, documentType, verificationStatus]
    statusChanges,  \* persisted StatusChange audit records
    wk,             \* per worker: the handler it runs and the handler's locals
    resp,           \* the response a handler returns in this step, if it returns one
    call            \* last direct Record Store call: [op, arg, obj, err], and the
                    \* address list a direct caller holds

vars == <<customers, addresses, documents, statusChanges, wk, resp, call>>

(* ----------------------------- Validator ------------------------------ *)

\* the map literal of ValidateStatusTransition
validTransitions ==
    [s \in Statuses |->
        CASE s = CustomerStatusPending -> <<CustomerStatusActive, CustomerStatusClosed>>
          [] s = CustomerStatusActive -> <<CustomerStatusInactive, CustomerStatusSuspended, CustomerStatusClosed>>
          [] s = CustomerStatusInactive -> <<CustomerStatusActive, CustomerStatusSuspended, CustomerStatusClosed>>
          [] s = CustomerStatusSuspended -> <<CustomerStatusActive, CustomerStatusInactive, CustomerStatusClosed>>
          [] s = CustomerStatusClosed -> << >>]

\* a mutation of the map: Closed is given an outgoing edge
validTransitionsReopen ==
    [s \in Statuses |->
        CASE s = CustomerStatusPending -> <<CustomerStatusActive, CustomerStatusClosed>>
          [] s = CustomerStatusActive -> <<CustomerStatusInactive, CustomerStatusSuspended, CustomerStatusClosed>>
          [] s = CustomerStatusInactive -> <<CustomerStatusActive, CustomerStatusSuspended, CustomerStatusClosed>>
          [] s = CustomerStatusSuspended -> <<CustomerStatusActive, CustomerStatusInactive, CustomerStatusClosed>>
          [] s = CustomerStatusClosed -> <<CustomerStatusActive>>]

\* a mutation of ValidateStatusTransition
ValidateStatusTransitionReopen(currentStatus, newStatus) ==
    IF currentStatus \notin DOMAIN validTransitionsReopen
    THEN "invalid current status"
    ELSE IF \E k \in 1..Len(validTransitionsReopen[currentStatus]) :
                validTransitionsReopen[currentStatus][k] = newStatus
         THEN "nil"
         ELSE "invalid status transition"

\* "nil" when the transition is allowed, otherwise the error
ValidateStatusTransition(currentStatus, newStatus) ==
    IF currentStatus \notin DOMAIN validTransitions
    THEN "invalid current status"
    ELSE IF \E k \in 1..Len(validTransitions[currentStatus]) :
                validTransitions[currentStatus][k] = newStatus
         THEN "nil"
         ELSE "invalid status transition"

\* the fields of the flags that are set, in the order given
ErrorsOf(checks) ==
    LET hit == SelectSeq(checks, LAMBDA c : c[2])
    IN  [k \in 1..Len(hit) |-> hit[k][1]]

\* "nil" when the tax identifier is accepted, otherwise the message
ValidateTaxID(taxID, country) ==
    LET n == Len(taxID)
        AllIn(lo, hi, S) == \A k \in lo..hi : taxID[k] \in S
        USSSN == /\ n = 11
                 /\ AllIn(1, 3, Digits) /\ taxID[4] = "-"
                 /\ AllIn(5, 6, Digits) /\ taxID[7] = "-"
                 /\ AllIn(8, 11, Digits)
        UKNINumber == n = 9 /\ AllIn(1, 2, UpperLetters) /\ AllIn(3, 8, Digits)
                            /\ AllIn(9, 9, UpperLetters)
        EUTaxID == n \in 10..14 /\ AllIn(1, 2, UpperLetters) /\ AllIn(3, n, Digits)
        Generic == n \in 5..20 /\ AllIn(1, n, UpperLetters \cup Digits)
    IN  IF n < 5 \/ n > 50 THEN "must be between 5 and 50 characters"
        ELSE IF country = "US"
             THEN (IF USSSN THEN "nil" ELSE "invalid US SSN format (XXX-XX-XXXX)")
        ELSE IF country = "UK"
             THEN (IF UKNINumber THEN "nil" ELSE "invalid UK NINO format")
        ELSE IF country \in {"DE", "FR", "IT", "ES"}
             THEN (IF EUTaxID THEN "nil" ELSE "invalid EU tax ID format")
        ELSE IF Generic THEN "nil" ELSE "invalid tax ID format"

\* the fields of the update request that fail validation, in order, when
\* time.Now() reads now; a date of birth of 0 is one the request leaves out
ValidateCustomerUpdate(id, version, email, phone, dateOfBirth, now) ==
    ErrorsOf(<< <<"id", id = "">>,
                <<"version", version = 0>>,
                <<"email", email # "" /\ email \notin Emails>>,
                <<"phone", phone # "" /\ phone \notin Phones>>,
                <<"date_of_birth", dateOfBirth # 0 /\ dateOfBirth > AddDate(now, -18)>> >>)

\* the fields of the create request that fail validation, in order, when
\* time.Now() reads now
ValidateCustomerCreate(req, now) ==
    ErrorsOf(<< <<"first_name", req.firstName = "" \/ Len(req.firstName) < 2
                                    \/ Len(req.firstName) > 100>>,
                <<"last_name", req.lastName = "" \/ Len(req.lastName) < 2
                                   \/ Len(req.lastName) > 100>>,
                <<"email", req.email = "" \/ req.email \notin Emails>>,
                <<"date_of_birth", req.dateOfBirth = 0>>,
                <<"date_of_birth", req.dateOfBirth # 0 /\ req.dateOfBirth > AddDate(now, -18)>>,
                <<"date_of_birth", req.dateOfBirth # 0 /\ req.dateOfBirth < AddDate(now, -150)>>,
                <<"tax_id", req.taxId # << >> /\ ValidateTaxID(req.taxId, "") # "nil">> >>)

\* the fields of the search request that fail validation, in order
ValidateSearchFilters(limit, offset, status, email) ==
    ErrorsOf(<< <<"limit", limit < 0>>,
                <<"limit", limit > 100>>,
                <<"offset", offset < 0>>,
                <<"status", status # "" /\ status \notin Statuses>>,
                <<"email", email # "" /\ email \notin Emails>> >>)

(* ---------------------------- Record Store ---------------------------- *)

\* the row an object is written as
RowOf(obj) ==
    [customerNumber |-> obj.customerNumber, taxId |-> obj.taxId, status |-> obj.status,
     email |-> obj.email, phone |-> obj.phone, dateOfBirth |-> obj.dateOfBirth,
     createdBy |-> obj.createdBy, version |-> obj.version]

\* the object a row is scanned into
ObjOf(id, row) ==
    [id |-> id, customerNumber |-> row.customerNumber, taxId |-> row.taxId,
     status |-> row.status, email |-> row.email, phone |-> row.phone,
     dateOfBirth |-> row.dateOfBirth, createdBy |-> row.createdBy,
     version |-> row.version]

\* the row after UPDATE customers SET ...: every column of the object but
\* id, created_at and created_by, which the SET list does not name
UpdatedRow(row, obj) ==
    [RowOf(obj) EXCEPT !.createdBy = row.createdBy]

\* a mutation of CreateCustomer: the version of the caller's object is kept
RepoCreateCustomerKeepsVersion(db, customer) ==
    [db |-> db @@ (customer.id :> RowOf(customer)), obj |-> customer, err |-> "nil"]

\* a mutation of CreateCustomer: customer_number is not UNIQUE
RepoCreateCustomerNotUnique(db, customer) ==
    LET obj == [customer EXCEPT !.version = 1]
    IN  [db |-> db @@ (obj.id :> RowOf(obj)), obj |-> obj, err |-> "nil"]

\* INSERT INTO customers with version = 1; customer_number is UNIQUE
RepoCreateCustomer(db, customer) ==
    LET obj == [customer EXCEPT !.version = 1]
    IN  IF \E c \in DOMAIN db : db[c].customerNumber = obj.customerNumber
        THEN [db |-> db, obj |-> obj, err |-> "unique_violation"]
        ELSE [db |-> db @@ (obj.id :> RowOf(obj)), obj |-> obj, err |-> "nil"]

\* a mutation of GetCustomerByID: a missing row is not reported
RepoGetCustomerByIDNoError(db, id) ==
    IF id \in DOMAIN db
    THEN [obj |-> ObjOf(id, db[id]), err |-> "nil"]
    ELSE [obj |-> NoCustomer, err |-> "nil"]

\* SELECT ... FROM customers WHERE id = $1
RepoGetCustomerByID(db, id) ==
    IF id \in DOMAIN db
    THEN [obj |-> ObjOf(id, db[id]), err |-> "nil"]
    ELSE [obj |-> NoCustomer, err |-> "ErrNotFound"]

\* a mutation of UpdateCustomer: the WHERE clause has lost the version
RepoUpdateCustomerNoVersionCheck(db, customer) ==
    LET obj == [customer EXCEPT !.version = customer.version + 1]
    IN  IF obj.id \in DOMAIN db
        THEN [db |-> [db EXCEPT ![obj.id] = UpdatedRow(db[obj.id], obj)], obj |-> obj, err |-> "nil"]
        ELSE [db |-> db, obj |-> obj, err |-> "ErrOptimisticLock"]

\* a mutation of UpdateCustomer: the WHERE clause compares with the new version
RepoUpdateCustomerNewVersion(db, customer) ==
    LET obj == [customer EXCEPT !.version = customer.version + 1]
    IN  IF obj.id \in DOMAIN db /\ db[obj.id].version = obj.version
        THEN [db |-> [db EXCEPT ![obj.id] = UpdatedRow(db[obj.id], obj)], obj |-> obj, err |-> "nil"]
        ELSE [db |-> db, obj |-> obj, err |-> "ErrOptimisticLock"]

\* a mutation of UpdateCustomer: the SET list has lost the status column
RepoUpdateCustomerKeepsStatus(db, customer) ==
    LET obj == [customer EXCEPT !.version = customer.version + 1]
    IN  IF obj.id \in DOMAIN db /\ db[obj.id].version = obj.version - 1
        THEN [db |-> [db EXCEPT ![obj.id] = [UpdatedRow(db[obj.id], obj) EXCEPT !.status = db[obj.id].status]],
              obj |-> obj, err |-> "nil"]
        ELSE [db |-> db, obj |-> obj, err |-> "ErrOptimisticLock"]

\* customer.Version++ ; UPDATE customers SET ... WHERE id = $1 AND version = $14
RepoUpdateCustomer(db, customer) ==
    LET obj == [customer EXCEPT !.version = customer.version + 1]
    IN  IF obj.id \in DOMAIN db /\ db[obj.id].version = obj.version - 1
        THEN [db |-> [db EXCEPT ![obj.id] = UpdatedRow(db[obj.id], obj)], obj |-> obj, err |-> "nil"]
        ELSE [db |-> db, obj |-> obj, err |-> "ErrOptimisticLock"]

\* SELECT ... FROM customers WHERE ... LIMIT l OFFSET o: the number of rows
\* returned (for the addresses modelled, email ILIKE '%e%' holds of the
\* equal address only)
RepoSearchCustomers(db, filters) ==
    LET matching == {c \in DOMAIN db :
                        /\ filters.email # "" => db[c].email = filters.email
                        /\ filters.status # "" => db[c].status = filters.status}
        limit == IF filters.limit > 0 THEN filters.limit ELSE 50
        offset == IF filters.offset > 0 THEN filters.offset ELSE 0
        left == IF Cardinality(matching) > offset
                THEN Cardinality(matching) - offset ELSE 0
    IN  [total |-> IF left < limit THEN left ELSE limit, err |-> "nil"]

\* descending sequence of a set of row identifiers (newest first)
RECURSIVE NewestFirst(_)
NewestFirst(S) ==
    IF S = {} THEN << >>
    ELSE LET m == CHOOSE x \in S : \A y \in S : y <= x
         IN  <<m>> \o NewestFirst(S \ {m})

\* the elements of a sequence
Range(seq) == {seq[k] : k \in DOMAIN seq}

\* the zero value of an address object
NoAddress == [id |-> 0, customerId |-> "", isPrimary |-> FALSE]

\* the address object a row is scanned into
AddrOf(db, a) == [id |-> a, customerId |-> db[a].customerId, isPrimary |-> db[a].isPrimary]

\* INSERT INTO addresses; execErr is the error of ExecContext ("nil" for none)
RepoAddAddress(db, address, execErr) ==
    IF execErr # "nil"
    THEN [db |-> db, err |-> "failed to add address"]
    ELSE [db |-> db @@ (address.id :> [customerId |-> address.customerId,
                                       isPrimary |-> address.isPrimary]),
          err |-> "nil"]

\* a mutation of UpdateAddress: nothing is written
RepoUpdateAddressNoOp(db, address) ==
    [db |-> db, err |-> "nil"]

\* UPDATE addresses SET ... WHERE id = $1 (the affected rows are not looked at)
RepoUpdateAddress(db, address) ==
    IF address.id \in DOMAIN db
    THEN [db |-> [db EXCEPT ![address.id] = [customerId |-> @.customerId,
                                             isPrimary |-> address.isPrimary]],
          err |-> "nil"]
    ELSE [db |-> db, err |-> "nil"]

\* SELECT ... WHERE customer_id = $1 ORDER BY is_primary DESC, created_at DESC
RepoGetCustomerAddresses(db, customerID) ==
    LET prim == {a \in DOMAIN db : db[a].customerId = customerID /\ db[a].isPrimary}
        rest == {a \in DOMAIN db : db[a].customerId = customerID /\ ~db[a].isPrimary}
        ids == NewestFirst(prim) \o NewestFirst(rest)
    IN  [k \in 1..Len(ids) |-> AddrOf(db, ids[k])]

\* INSERT INTO customer_documents
RepoAddDocument(db, doc) ==
    [db |-> db @@ (doc.id :> [customerId |-> doc.customerId,
                              documentType |-> doc.documentType,
                              verificationStatus |-> doc.verificationStatus]),
     err |-> "nil"]

\* UPDATE customer_documents SET ... WHERE id = $1
RepoUpdateDocument(db, doc) ==
    IF doc.id \in DOMAIN db
    THEN [db |-> [db EXCEPT ![doc.id] = [customerId |-> @.customerId,
                                         documentType |-> doc.documentType,
                                         verificationStatus |-> doc.verificationStatus]],
          err |-> "nil"]
    ELSE [db |-> db, err |-> "nil"]

\* SELECT ... FROM customer_documents WHERE customer_id = $1 ORDER BY created_at DESC
RepoGetCustomerDocuments(db, customerID) ==
    LET ids == NewestFirst({d \in DOMAIN db : db[d].customerId = customerID})
    IN  [k \in 1..Len(ids) |-> [id |-> ids[k], customerId |-> customerID,
                                documentType |-> db[ids[k]].documentType,
                                verificationStatus |-> db[ids[k]].verificationStatus]]

(* ---------------------------- Orchestrator ---------------------------- *)

\* a mutation of isIdentityDocument: the tax id counts as an identity document
isIdentityDocumentWithTaxID(docType) ==
    docType \in {"Passport", "DriversLicense", "NationalID", "SSN", "TaxID"}

\* a mutation of isIdentityDocument: the passport case is lost
isIdentityDocumentNoPassport(docType) ==
    docType \in {"DriversLicense", "NationalID", "SSN"}

isIdentityDocument(docType) ==
    docType \in {"Passport", "DriversLicense", "NationalID", "SSN"}

\* a mutation of ValidateAddress: the checks are lost
ValidateAddressNoChecks(customerId, street1) ==
    << >>

\* the fields of the address request that fail validation, in order
ValidateAddress(customerId, street1) ==
    ErrorsOf(<< <<"customer_id", customerId = "">>,
                <<"street1", street1 = "" \/ Len(street1) > 200>> >>)

\* the fields of the document request that fail validation, in order, when
\* time.Now() reads now
ValidateDocument(customerId, documentType, issueDate, expiryDate, now) ==
    ErrorsOf(<< <<"customer_id", customerId = "">>,
                <<"document_type",
                  documentType = ""
                  \/ documentType \notin {"Passport", "DriversLicense", "NationalID", "SSN",
                                          "TaxID", "UtilityBill", "BankStatement"}>>,
                <<"issue_date", issueDate = 0>>,
                <<"expiry_date", expiryDate = 0>>,
                <<"expiry_date", expiryDate # 0 /\ expiryDate < now>>,
                <<"expiry_date", expiryDate # 0 /\ issueDate # 0
                                    /\ expiryDate < issueDate>> >>)

\* a worker that runs no handler
IdleWorker ==
    [pc |-> "idle", op |-> "none", id |-> "", version |-> 0, email |-> "", phone |-> "",
     reqIsPrimary |-> FALSE, documentType |-> "",
     customer |-> NoCustomer, previousStatus |-> "", addrs |-> << >>,
     isPrimary |-> FALSE, hadPrimary |-> FALSE, overlap |-> FALSE, docId |-> 0]

\* the customer of a response that carries none
NoProto ==
    [id |-> "", customerNumber |-> 0, email |-> "", phone |-> "", status |-> "", version |-> 0]

\* no response yet
NoResponse ==
    [op |-> "none", id |-> "", code |-> "", repoErr |-> "",
     previousStatus |-> "", newStatus |-> "",
     reqIsPrimary |-> FALSE, hadPrimary |-> FALSE, overlap |-> FALSE, newId |-> 0,
     fields |-> << >>, total |-> 0, customer |-> NoProto]

\* the response of handler op on customer id
Response(op, id, code, repoErr) ==
    [NoResponse EXCEPT !.op = op, !.id = id, !.code = code, !.repoErr = repoErr]

\* status.Errorf(codes.InvalidArgument, ...) of handler op naming fields
InvalidArgument(op, id, fields) ==
    [Response(op, id, "InvalidArgument", "") EXCEPT !.fields = fields]

\* no direct call yet
NoCall ==
    [op |-> "none", arg |-> NoCustomer, obj |-> NoCustomer, err |-> "",
     currentStatus |-> "", newStatus |-> "", held |-> << >>, read |-> NoAddress,
     key |-> << >>, sealKey |-> << >>, plaintext |-> << >>, ciphertext |-> << >>,
     out |-> << >>, now |-> 0, dateOfBirth |-> 0, issueDate |-> 0, expiryDate |-> 0,
     errs |-> << >>, retry |-> FALSE]

\* uuid.New(): an identifier no row has
FreshCustomerIDs == CustomerIDs \ DOMAIN customers

\* a request is handed to the first worker that is free
Dispatch(w) ==
    /\ wk[w].pc = "idle"
    /\ \A v \in Workers : wk[v].pc = "idle" => w <= v

\* the workers other than w that are inside AddAddress for customer id
OtherAddAddress(w, id) ==
    {v \in Workers \ {w} : wk[v].op = "AddAddress" /\ wk[v].id = id}

Init ==
    /\ customers = << >>
    /\ addresses = << >>
    /\ documents = << >>
    /\ statusChanges = {}
    /\ wk = [w \in Workers |-> IdleWorker]
    /\ resp = NoResponse
    /\ call = NoCall

\* a mutation of modelToProto: the tax identifier is copied too
modelToProtoWithTaxID(c) ==
    [id |-> c.id, customerNumber |-> c.customerNumber, email |-> c.email,
     phone |-> c.phone, status |-> c.status, version |-> c.version, taxId |-> c.taxId]

\* the customer of a response: TaxID is not among the fields copied
modelToProto(c) ==
    [id |-> c.id, customerNumber |-> c.customerNumber, email |-> c.email,
     phone |-> c.phone, status |-> c.status, version |-> c.version]

\* fmt.Sprintf("CUST-%d", time.Now().UnixNano()), for the clock reading now
generateCustomerNumber(now) ==
    now

\* CustomerService.CreateCustomer, one request handled to the end; id is
\* the uuid.New() of the Record Store and now the reading of the clock
CreateCustomer(w, req, id, now) ==
    /\ Dispatch(w)
    /\ IF ValidateCustomerCreate(req, Now) # << >>
       THEN /\ resp' = InvalidArgument("CreateCustomer", "",
                                       ValidateCustomerCreate(req, Now))
            /\ UNCHANGED customers
       ELSE IF req.createdBy # "" /\ req.createdBy \notin UUIDs
       THEN /\ resp' = InvalidArgument("CreateCustomer", "", <<"created_by">>)
            /\ UNCHANGED customers
       ELSE /\ id \notin DOMAIN customers
            /\ LET r == RepoCreateCustomer(customers,
                           [id |-> id, customerNumber |-> generateCustomerNumber(now),
                            taxId |-> req.taxId, status |-> CustomerStatusPending,
                            email |-> req.email, phone |-> req.phone,
                            dateOfBirth |-> req.dateOfBirth,
                            createdBy |-> req.createdBy, version |-> 0])
               IN  /\ customers' = r.db
                   /\ resp' = IF r.err # "nil"
                              THEN Response("CreateCustomer", "", "Internal", r.err)
                              ELSE [Response("CreateCustomer", id, "OK", r.err)
                                        EXCEPT !.customer = modelToProto(r.obj)]
    /\ UNCHANGED <<addresses, documents, statusChanges, wk, call>>

\* a mutation of ApplyField: the request's value is assigned even when empty
ApplyFieldAlways(stored, requested) ==
    requested

\* "Update fields if provided": the value of a field after the assignments
ApplyField(stored, requested) ==
    IF requested # "" THEN requested ELSE stored

\* CustomerService.UpdateCustomer up to the end of GetCustomerByID and the
\* field assignments
UpdateCustomerLoad(w, id, version, email, phone, dateOfBirth) ==
    /\ Dispatch(w)
    /\ LET g == RepoGetCustomerByID(customers, id)
           errs == ValidateCustomerUpdate(id, version, email, phone, dateOfBirth, Now)
        IN  IF errs # << >>
            THEN /\ resp' = InvalidArgument("UpdateCustomer", id, errs)
                 /\ UNCHANGED wk
            ELSE IF id \notin UUIDs
            THEN /\ resp' = InvalidArgument("UpdateCustomer", id, <<"id">>)
                 /\ UNCHANGED wk
            ELSE IF g.err = "ErrNotFound"
            THEN /\ resp' = Response("UpdateCustomer", id, "NotFound", g.err)
                 /\ UNCHANGED wk
            ELSE /\ g.obj.version < MaxVersion
                 /\ wk' = [wk EXCEPT ![w] =
                            [IdleWorker EXCEPT !.pc = "UC_update", !.op = "UpdateCustomer",
                                 !.id = id, !.version = version, !.email = email,
                                 !.phone = phone,
                                 !.customer =
                                    [g.obj EXCEPT
                                        !.dateOfBirth =
                                            IF dateOfBirth # 0 THEN dateOfBirth ELSE @,
                                        !.email = ApplyField(@, email),
                                        !.phone = ApplyField(@, phone)]]]
                 /\ resp' = NoResponse
    /\ UNCHANGED <<customers, addresses, documents, statusChanges, call>>

\* CustomerService.UpdateCustomer from repo.UpdateCustomer to the response
UpdateCustomerWrite(w) ==
    /\ wk[w].pc = "UC_update"
    /\ LET r == RepoUpdateCustomer(customers, wk[w].customer)
       IN  /\ customers' = r.db
           /\ resp' = [Response("UpdateCustomer", wk[w].id,
                                IF r.err = "nil" THEN "OK"
                                ELSE IF r.err = "ErrOptimisticLock" THEN "Aborted"
                                ELSE "Internal",
                                r.err)
                         EXCEPT !.customer = IF r.err = "nil" THEN modelToProto(r.obj)
                                             ELSE NoProto]
    /\ wk' = [wk EXCEPT ![w] = IdleWorker]
    /\ UNCHANGED <<addresses, documents, statusChanges, call>>

\* CustomerService.UpdateCustomerStatus up to the assignment of the new
\* status to the loaded object
UpdateCustomerStatusLoad(w, id, newStatus, reason) ==
    /\ Dispatch(w)
    /\ LET g == RepoGetCustomerByID(customers, id)
            R(code, err) == Response("UpdateCustomerStatus", id, code, err)
        IN  IF id = ""
            THEN /\ resp' = InvalidArgument("UpdateCustomerStatus", id, <<"id">>)
                 /\ UNCHANGED wk
            ELSE IF newStatus = ""
            THEN /\ resp' = InvalidArgument("UpdateCustomerStatus", id, <<"new_status">>)
                 /\ UNCHANGED wk
            ELSE IF reason = ""
            THEN /\ resp' = InvalidArgument("UpdateCustomerStatus", id, <<"reason">>)
                 /\ UNCHANGED wk
            ELSE IF id \notin UUIDs
            THEN /\ resp' = InvalidArgument("UpdateCustomerStatus", id, <<"id">>)
                 /\ UNCHANGED wk
            ELSE IF g.err = "ErrNotFound"
            THEN /\ resp' = R("NotFound", g.err)
                 /\ UNCHANGED wk
            ELSE IF ValidateStatusTransition(g.obj.status, newStatus) # "nil"
            THEN /\ resp' = R("FailedPrecondition", "")
                 /\ UNCHANGED wk
            ELSE /\ g.obj.version < MaxVersion
                 /\ wk' = [wk EXCEPT ![w] =
                            [IdleWorker EXCEPT !.pc = "UCS_update",
                                 !.op = "UpdateCustomerStatus", !.id = id,
                                 !.previousStatus = g.obj.status,
                                 !.customer = [g.obj EXCEPT !.status = newStatus]]]
                 /\ resp' = NoResponse
    /\ UNCHANGED <<customers, addresses, documents, statusChanges, call>>

\* CustomerService.UpdateCustomerStatus from repo.UpdateCustomer to the
\* response; the StatusChange it builds goes into the response only
UpdateCustomerStatusWrite(w) ==
    /\ wk[w].pc = "UCS_update"
    /\ LET r == RepoUpdateCustomer(customers, wk[w].customer)
       IN  /\ customers' = r.db
           /\ resp' = [Response("UpdateCustomerStatus", wk[w].id,
                                IF r.err = "nil" THEN "OK" ELSE "Internal", r.err)
                         EXCEPT !.previousStatus = wk[w].previousStatus,
                                !.newStatus = wk[w].customer.status,
                                !.customer = IF r.err = "nil" THEN modelToProto(r.obj)
                                             ELSE NoProto]
    /\ wk' = [wk EXCEPT ![w] = IdleWorker]
    /\ UNCHANGED <<addresses, documents, statusChanges, call>>

\* CustomerService.AddAddress up to the end of GetCustomerByID
AddAddressLoad(w, id, isPrimary, street1) ==
    /\ Dispatch(w)
    /\ LET g == RepoGetCustomerByID(customers, id)
            R(code, err) == Response("AddAddress", id, code, err)
            others == OtherAddAddress(w, id)
        IN  IF ValidateAddress(id, street1) # << >>
            THEN /\ resp' = InvalidArgument("AddAddress", id, ValidateAddress(id, street1))
                 /\ UNCHANGED wk
            ELSE IF id \notin UUIDs
            THEN /\ resp' = InvalidArgument("AddAddress", id, <<"customer_id">>)
                 /\ UNCHANGED wk
            ELSE IF g.err = "ErrNotFound"
            THEN /\ resp' = R("NotFound", g.err)
                 /\ UNCHANGED wk
            ELSE /\ Cardinality(DOMAIN addresses)
                        + Cardinality({v \in Workers : wk[v].op = "AddAddress"}) < MaxAddresses
                 /\ wk' = [v \in Workers |->
                            IF v = w
                            THEN [IdleWorker EXCEPT !.pc = "AA_list", !.op = "AddAddress",
                                      !.id = id, !.reqIsPrimary = isPrimary,
                                      !.isPrimary = isPrimary,
                                      !.overlap = (others # {})]
                            ELSE IF v \in others
                            THEN [wk[v] EXCEPT !.overlap = TRUE]
                            ELSE wk[v]]
                 /\ resp' = NoResponse
    /\ UNCHANGED <<customers, addresses, documents, statusChanges, call>>

\* a mutation of the primary address logic: every new address is primary
EffectiveIsPrimaryAlways(reqIsPrimary, hasPrimary) ==
    TRUE

\* a mutation of the primary address logic: the request's flag is kept
EffectiveIsPrimaryAsRequested(reqIsPrimary, hasPrimary) ==
    reqIsPrimary

\* req.IsPrimary after the primary address logic: a request without
\* is_primary is made primary when no listed address is primary
EffectiveIsPrimary(reqIsPrimary, hasPrimary) ==
    IF reqIsPrimary THEN TRUE ELSE ~hasPrimary

\* the addresses of a list that are primary
Primaries(addrs) == {k \in 1..Len(addrs) : addrs[k].isPrimary}

\* CustomerService.AddAddress: GetCustomerAddresses and, without is_primary
\* in the request, the search for an existing primary address
AddAddressList(w) ==
    /\ wk[w].pc = "AA_list"
    /\ LET addrs == RepoGetCustomerAddresses(addresses, wk[w].id)
           hasPrimary == Primaries(addrs) # {}
       IN  wk' = [wk EXCEPT ![w] =
                IF wk[w].reqIsPrimary
                THEN IF hasPrimary
                     THEN [@ EXCEPT !.pc = "AA_unset", !.addrs = addrs, !.hadPrimary = TRUE]
                     ELSE [@ EXCEPT !.pc = "AA_insert", !.hadPrimary = FALSE]
                ELSE [@ EXCEPT !.pc = "AA_insert", !.hadPrimary = hasPrimary,
                               !.isPrimary = EffectiveIsPrimary(FALSE, hasPrimary)]]
    /\ resp' = NoResponse
    /\ UNCHANGED <<customers, addresses, documents, statusChanges, call>>

\* CustomerService.AddAddress: one round of the loop that reaches
\* repo.UpdateAddress, for the next primary address of the list
AddAddressUnset(w) ==
    /\ wk[w].pc = "AA_unset"
    /\ LET addrs == wk[w].addrs
           k == CHOOSE x \in Primaries(addrs) : \A y \in Primaries(addrs) : x <= y
           r == RepoUpdateAddress(addresses, [addrs[k] EXCEPT !.isPrimary = FALSE])
           rest == SubSeq(addrs, k + 1, Len(addrs))
       IN  /\ addresses' = r.db
           /\ wk' = [wk EXCEPT ![w] =
                        IF Primaries(rest) # {}
                        THEN [@ EXCEPT !.addrs = rest]
                        ELSE [@ EXCEPT !.pc = "AA_insert", !.addrs = << >>]]
    /\ resp' = NoResponse
    /\ UNCHANGED <<customers, documents, statusChanges, call>>

\* CustomerService.AddAddress from repo.AddAddress to the response; execErr
\* is the error the database returns to the INSERT ("nil" for none)
AddAddressInsert(w, execErr) ==
    /\ wk[w].pc = "AA_insert"
    /\ LET newId == Cardinality(DOMAIN addresses) + 1
           r == RepoAddAddress(addresses, [id |-> newId, customerId |-> wk[w].id,
                                           isPrimary |-> wk[w].isPrimary], execErr)
       IN  /\ addresses' = r.db
           /\ resp' = [Response("AddAddress", wk[w].id,
                                IF r.err = "nil" THEN "OK" ELSE "Internal", r.err)
                        EXCEPT !.reqIsPrimary = wk[w].reqIsPrimary,
                               !.hadPrimary = wk[w].hadPrimary,
                               !.overlap = wk[w].overlap,
                               !.newId = IF r.err = "nil" THEN newId ELSE 0]
    /\ wk' = [wk EXCEPT ![w] = IdleWorker]
    /\ UNCHANGED <<customers, documents, statusChanges, call>>

\* CustomerService.AddDocument up to the end of GetCustomerByID
AddDocumentLoad(w, id, documentType, issueDate, expiryDate) ==
    /\ Dispatch(w)
    /\ LET g == RepoGetCustomerByID(customers, id)
           errs == ValidateDocument(id, documentType, issueDate, expiryDate, Now)
        IN  IF errs # << >>
            THEN /\ resp' = InvalidArgument("AddDocument", id, errs)
                 /\ UNCHANGED wk
            ELSE IF id \notin UUIDs
            THEN /\ resp' = InvalidArgument("AddDocument", id, <<"customer_id">>)
                 /\ UNCHANGED wk
            ELSE IF g.err = "ErrNotFound"
            THEN /\ resp' = Response("AddDocument", id, "NotFound", g.err)
                 /\ UNCHANGED wk
            ELSE /\ Cardinality(DOMAIN documents)
                        + Cardinality({v \in Workers : wk[v].pc = "AD_insert"}) < MaxDocuments
                 /\ g.obj.status = CustomerStatusPending => g.obj.version < MaxVersion
                 /\ wk' = [wk EXCEPT ![w] =
                            [IdleWorker EXCEPT !.pc = "AD_insert", !.op = "AddDocument",
                                 !.id = id, !.documentType = documentType,
                                 !.customer = g.obj]]
                 /\ resp' = NoResponse
    /\ UNCHANGED <<customers, addresses, documents, statusChanges, call>>

\* CustomerService.AddDocument: repo.AddDocument, then the test of the
\* status of the customer object loaded before
AddDocumentInsert(w) ==
    /\ wk[w].pc = "AD_insert"
    /\ LET newId == Cardinality(DOMAIN documents) + 1
           r == RepoAddDocument(documents,
                    [id |-> newId, customerId |-> wk[w].id,
                     documentType |-> wk[w].documentType,
                     verificationStatus |-> VerificationStatusPending])
       IN  /\ documents' = r.db
           /\ IF wk[w].customer.status = CustomerStatusPending
              THEN /\ wk' = [wk EXCEPT ![w] = [@ EXCEPT !.pc = "AD_check", !.documentType = "",
                                                       !.docId = newId]]
                   /\ resp' = NoResponse
              ELSE /\ wk' = [wk EXCEPT ![w] = IdleWorker]
                   /\ resp' = [Response("AddDocument", wk[w].id, "OK", r.err)
                                EXCEPT !.newId = newId]
    /\ UNCHANGED <<customers, addresses, statusChanges, call>>

\* CustomerService.AddDocument: GetCustomerDocuments and the search for a
\* verified identity document
AddDocumentCheck(w) ==
    /\ wk[w].pc = "AD_check"
    /\ LET docs == RepoGetCustomerDocuments(documents, wk[w].id)
           hasVerifiedIdentity ==
               \E k \in 1..Len(docs) :
                   /\ isIdentityDocument(docs[k].documentType)
                   /\ docs[k].verificationStatus = VerificationStatusVerified
       IN  IF hasVerifiedIdentity
           THEN /\ wk' = [wk EXCEPT ![w] =
                            [@ EXCEPT !.pc = "AD_update",
                                      !.customer = [@ EXCEPT !.status = CustomerStatusActive]]]
                /\ resp' = NoResponse
           ELSE /\ wk' = [wk EXCEPT ![w] = IdleWorker]
                /\ resp' = Response("AddDocument", wk[w].id, "OK", "nil")
    /\ UNCHANGED <<customers, addresses, documents, statusChanges, call>>

\* CustomerService.AddDocument: the auto-activation, from repo.UpdateCustomer
\* to the response
AddDocumentActivate(w) ==
    /\ wk[w].pc = "AD_update"
    /\ LET r == RepoUpdateCustomer(customers, wk[w].customer)
       IN  /\ customers' = r.db
           /\ resp' = [Response("AddDocument", wk[w].id,
                                IF r.err = "nil" THEN "OK" ELSE "Internal", r.err)
                         EXCEPT !.previousStatus = CustomerStatusPending,
                                !.newStatus = wk[w].customer.status,
                                !.newId = wk[w].docId]
    /\ wk' = [wk EXCEPT ![w] = IdleWorker]
    /\ UNCHANGED <<addresses, documents, statusChanges, call>>

\* the verification workflow outside the Orchestrator: repo.UpdateDocument
\* of a pending document with verification status Verified
VerifyDocument(d) ==
    /\ d \in DOMAIN documents
    /\ documents[d].verificationStatus = VerificationStatusPending
    /\ LET r == RepoUpdateDocument(documents,
                    [id |-> d, documentType |-> documents[d].documentType,
                     verificationStatus |-> VerificationStatusVerified])
       IN  documents' = r.db
    /\ resp' = NoResponse
    /\ UNCHANGED <<customers, addresses, statusChanges, wk, call>>

\* CustomerService.GetCustomer, one request handled to the end
GetCustomer(w, id) ==
    /\ Dispatch(w)
    /\ LET g == RepoGetCustomerByID(customers, id)
       IN  resp' = IF id = "" \/ id \notin UUIDs
                   THEN InvalidArgument("GetCustomer", id, <<"id">>)
                   ELSE IF g.err = "ErrNotFound"
                   THEN Response("GetCustomer", id, "NotFound", g.err)
                   ELSE [Response("GetCustomer", id, "OK", g.err)
                            EXCEPT !.customer = modelToProto(g.obj)]
    /\ UNCHANGED <<customers, addresses, documents, statusChanges, wk, call>>

\* CustomerService.GetCustomerFullProfile up to the end of GetCustomerByID
GetCustomerFullProfileLoad(w, id) ==
    /\ Dispatch(w)
    /\ LET g == RepoGetCustomerByID(customers, id)
       IN  IF id = "" \/ id \notin UUIDs
           THEN /\ resp' = InvalidArgument("GetCustomerFullProfile", id, <<"id">>)
                /\ UNCHANGED wk
           ELSE IF g.err = "ErrNotFound"
           THEN /\ resp' = Response("GetCustomerFullProfile", id, "NotFound", g.err)
                /\ UNCHANGED wk
           ELSE /\ wk' = [wk EXCEPT ![w] =
                            [IdleWorker EXCEPT !.pc = "GP_addresses",
                                 !.op = "GetCustomerFullProfile", !.id = id,
                                 !.customer = g.obj]]
                /\ resp' = NoResponse
    /\ UNCHANGED <<customers, addresses, documents, statusChanges, call>>

\* CustomerService.GetCustomerFullProfile: GetCustomerAddresses
GetCustomerFullProfileAddresses(w) ==
    /\ wk[w].pc = "GP_addresses"
    /\ wk' = [wk EXCEPT ![w] =
                [@ EXCEPT !.pc = "GP_documents",
                          !.addrs = RepoGetCustomerAddresses(addresses, wk[w].id)]]
    /\ resp' = NoResponse
    /\ UNCHANGED <<customers, addresses, documents, statusChanges, call>>

\* CustomerService.GetCustomerFullProfile from GetCustomerDocuments to the
\* response, whose status history is empty
GetCustomerFullProfileDocuments(w) ==
    /\ wk[w].pc = "GP_documents"
    /\ LET docs == RepoGetCustomerDocuments(documents, wk[w].id)
       IN  resp' = [Response("GetCustomerFullProfile", wk[w].id, "OK", "nil")
                      EXCEPT !.total = Len(wk[w].addrs) + Len(docs),
                             !.customer = modelToProto(wk[w].customer)]
    /\ wk' = [wk EXCEPT ![w] = IdleWorker]
    /\ UNCHANGED <<customers, addresses, documents, statusChanges, call>>

\* CustomerService.SearchCustomers, one request handled to the end
SearchCustomers(w, limit, offset, status, email) ==
    /\ Dispatch(w)
    /\ LET errs == ValidateSearchFilters(limit, offset, status, email)
           r == RepoSearchCustomers(customers,
                    [email |-> email, status |-> status, limit |-> limit, offset |-> offset])
       IN  resp' = IF errs # << >>
                   THEN InvalidArgument("SearchCustomers", "", errs)
                   ELSE [Response("SearchCustomers", "", "OK", r.err) EXCEPT !.total = r.total]
    /\ UNCHANGED <<customers, addresses, documents, statusChanges, wk, call>>

\* the dates of the "valid document" and "expired document" of the tests
IssueDate == AddDate(Now, -2)
ExpiryDate == AddDate(Now, 5)
ExpiredDate == AddDate(Now, -1)

\* a request that passes ValidateCustomerCreate
ValidCreateRequest ==
    [firstName |-> "Ada", lastName |-> "Lovelace", email |-> "ada@example.com", phone |-> "",
     dateOfBirth |-> AddDate(Now, -25), taxId |-> TaxIDPlain, createdBy |-> ""]

\* the "valid customer creation" request of the tests
ExampleCreateRequest == [ValidCreateRequest EXCEPT !.taxId = TaxIDHyphenated]

\* the create requests of the single client
CreateRequests ==
    {ValidCreateRequest,
     ExampleCreateRequest,
     [ValidCreateRequest EXCEPT !.taxId = TaxIDShort],
     [ValidCreateRequest EXCEPT !.email = "ada.l@example.com"],
     [ValidCreateRequest EXCEPT !.email = ""],
     [ValidCreateRequest EXCEPT !.firstName = "A"],
     [ValidCreateRequest EXCEPT !.lastName = ""],
     [ValidCreateRequest EXCEPT !.dateOfBirth = AddDate(Now, -10)],
     [ValidCreateRequest EXCEPT !.dateOfBirth = Date(1850, 1, 1, 0)],
     [ValidCreateRequest EXCEPT !.createdBy = "not-a-uuid"],
     [ValidCreateRequest EXCEPT !.firstName = "", !.email = "ada.example.com",
                                !.dateOfBirth = 0]}

\* the identifiers the requests of the single client carry
RequestIDs == UUIDs \cup {"", "not-a-uuid"}

\* Concurrent clients: two workers, each serving well-formed requests (a
\* malformed request is answered before the first repository call, so it
\* takes no part in any interleaving; SpecSeq serves those).  The version
\* of an update request, which the handler only compares with zero, is 1.
Next ==
    \/ \E w \in Workers, id \in CustomerIDs : CreateCustomer(w, ValidCreateRequest, id, 1)
    \/ \E w \in Workers, id \in CustomerIDs,
          f \in {<<"ada.l@example.com", "">>, <<"", "+15550100">>} :
            UpdateCustomerLoad(w, id, 1, f[1], f[2], 0)
    \/ \E w \in Workers : UpdateCustomerWrite(w)
    \/ \E w \in Workers, id \in CustomerIDs, newStatus \in Statuses :
            UpdateCustomerStatusLoad(w, id, newStatus, "kyc")
    \/ \E w \in Workers : UpdateCustomerStatusWrite(w)
    \/ \E w \in Workers, id \in CustomerIDs, isPrimary \in BOOLEAN, street1 \in Streets :
            AddAddressLoad(w, id, isPrimary, street1)
    \/ \E w \in Workers : AddAddressList(w)
    \/ \E w \in Workers : AddAddressUnset(w)
    \/ \E w \in Workers : AddAddressInsert(w, "nil")
    \/ \E w \in Workers, id \in CustomerIDs : AddDocumentLoad(w, id, "Passport", IssueDate, ExpiryDate)
    \/ \E w \in Workers : AddDocumentInsert(w)
    \/ \E w \in Workers : AddDocumentCheck(w)
    \/ \E w \in Workers : AddDocumentActivate(w)
    \/ \E d \in 1..MaxDocuments : VerifyDocument(d)

Spec == Init /\ [][Next]_vars

(* ------------------- one client, one request at a time ---------------- *)

\* the client takes the response it has waited for
ClientReceive ==
    /\ resp # NoResponse
    /\ resp' = NoResponse
    /\ UNCHANGED <<customers, addresses, documents, statusChanges, wk, call>>

\* the next request of the client, of any shape, the malformed ones included
ClientRequest ==
    \/ \E req \in CreateRequests, id \in CustomerIDs : CreateCustomer(1, req, id, 1)
    \/ \E id \in RequestIDs, version \in RequestVersions,
          email \in Emails \cup {"", "ada.example.com"}, phone \in {"", "0155"} :
            UpdateCustomerLoad(1, id, version, email, phone, 0)
    \/ \E id \in RequestIDs, newStatus \in Statuses \cup {"", "Frozen"},
          reason \in {"", "kyc"} :
            UpdateCustomerStatusLoad(1, id, newStatus, reason)
    \/ \E id \in RequestIDs, isPrimary \in BOOLEAN, street1 \in Streets \cup {""} :
            AddAddressLoad(1, id, isPrimary, street1)
    \/ \E id \in RequestIDs, documentType \in DocumentTypes \cup {"", "Selfie"},
          expiryDate \in {ExpiryDate, ExpiredDate} :
            AddDocumentLoad(1, id, documentType, IssueDate, expiryDate)
    \/ \E id \in RequestIDs : GetCustomer(1, id)
    \/ \E id \in RequestIDs : GetCustomerFullProfileLoad(1, id)
    \/ \E limit \in {-1, 0, 10, 101}, offset \in {-1, 0}, status \in {"", "Active", "Frozen"},
          email \in {"", "ada@example.com", "ada.example.com"} :
            SearchCustomers(1, limit, offset, status, email)

\* A single client that sends a request, waits for the response, takes it
\* and sends the next: worker 1 serves one request at a time.
NextSeq ==
    \/ ClientReceive
    \/ (resp = NoResponse /\ ClientRequest)
    \/ UpdateCustomerWrite(1)
    \/ UpdateCustomerStatusWrite(1)
    \/ AddAddressList(1)
    \/ AddAddressUnset(1)
    \/ AddAddressInsert(1, "nil")
    \/ AddDocumentInsert(1)
    \/ AddDocumentCheck(1)
    \/ AddDocumentActivate(1)
    \/ GetCustomerFullProfileAddresses(1)
    \/ GetCustomerFullProfileDocuments(1)
    \/ \E d \in 1..MaxDocuments : VerifyDocument(d)

SpecSeq == Init /\ [][NextSeq]_vars

(* ------------- the components called directly, one by one ------------- *)

\* the customer objects a caller of the Record Store can supply
CustomerObjects ==
    [id : CustomerIDs, customerNumber : {1}, taxId : {TaxIDPlain}, status : Statuses,
     email : Emails, phone : {""}, dateOfBirth : {AddDate(Now, -25)}, createdBy : {""},
     version : 0..MaxVersion]

\* pgCustomerRepository.CreateCustomer called with a new customer object
DirectCreateCustomer ==
    /\ \E obj \in CustomerObjects :
        /\ obj.id \in FreshCustomerIDs
        /\ LET r == RepoCreateCustomer(customers, obj)
           IN  /\ customers' = r.db
               /\ call' = [NoCall EXCEPT !.op = "CreateCustomer", !.arg = obj,
                                         !.obj = r.obj, !.err = r.err]
    /\ UNCHANGED <<addresses, documents, statusChanges, wk, resp>>

\* pgCustomerRepository.UpdateCustomer called with any customer object
DirectUpdateCustomer ==
    /\ \E obj \in CustomerObjects :
        /\ obj.version < MaxVersion
        /\ LET r == RepoUpdateCustomer(customers, obj)
           IN  /\ customers' = r.db
               /\ call' = [NoCall EXCEPT !.op = "UpdateCustomer", !.arg = obj,
                                         !.obj = r.obj, !.err = r.err]
    /\ UNCHANGED <<addresses, documents, statusChanges, wk, resp>>

\* pgCustomerRepository.UpdateCustomer called again, after the optimistic-lock
\* error, with the object of the failed call as that call left it
DirectRetryUpdateCustomer ==
    /\ call.op = "UpdateCustomer"
    /\ call.err = "ErrOptimisticLock"
    /\ call.obj.version < MaxVersion
    /\ LET r == RepoUpdateCustomer(customers, call.obj)
       IN  /\ customers' = r.db
           /\ call' = [NoCall EXCEPT !.op = "UpdateCustomer", !.arg = call.obj,
                                     !.obj = r.obj, !.err = r.err, !.retry = TRUE]
    /\ UNCHANGED <<addresses, documents, statusChanges, wk, resp>>

\* Validator.ValidateStatusTransition called with any pair of statuses
DirectValidateStatusTransition ==
    /\ \E currentStatus \in Statuses, newStatus \in Statuses :
        call' = [NoCall EXCEPT !.op = "ValidateStatusTransition",
                               !.currentStatus = currentStatus,
                               !.newStatus = newStatus,
                               !.err = ValidateStatusTransition(currentStatus, newStatus)]
    /\ UNCHANGED <<customers, addresses, documents, statusChanges, wk, resp>>

NextDirect ==
    \/ DirectCreateCustomer
    \/ DirectUpdateCustomer
    \/ DirectRetryUpdateCustomer
    \/ DirectValidateStatusTransition

SpecDirect == Init /\ [][NextDirect]_vars

(* ------- the address operations of the Record Store, called directly --- *)

\* pgCustomerRepository.AddAddress called for a persisted customer
DirectAddAddress ==
    /\ Cardinality(DOMAIN addresses) < MaxAddresses
    /\ \E c \in DOMAIN customers, isPrimary \in BOOLEAN :
        LET r == RepoAddAddress(addresses,
                    [id |-> Cardinality(DOMAIN addresses) + 1, customerId |-> c,
                     isPrimary |-> isPrimary], "nil")
        IN  /\ addresses' = r.db
            /\ call' = [NoCall EXCEPT !.op = "AddAddress", !.err = r.err,
                                      !.held = call.held]
    /\ UNCHANGED <<customers, documents, statusChanges, wk, resp>>

\* pgCustomerRepository.GetCustomerAddresses: the caller keeps the list
DirectGetCustomerAddresses ==
    /\ \E c \in DOMAIN customers :
        call' = [NoCall EXCEPT !.op = "GetCustomerAddresses", !.err = "nil",
                               !.held = RepoGetCustomerAddresses(addresses, c)]
    /\ UNCHANGED <<customers, addresses, documents, statusChanges, wk, resp>>

\* pgCustomerRepository.UpdateAddress called with an address object that was
\* read before (one of the list held) or just now (by another caller), and
\* whose is_primary the caller has set
DirectUpdateAddress ==
    /\ \E read \in Range(call.held) \cup {AddrOf(addresses, a) : a \in DOMAIN addresses},
          isPrimary \in BOOLEAN :
        LET r == RepoUpdateAddress(addresses, [read EXCEPT !.isPrimary = isPrimary])
        IN  /\ addresses' = r.db
            /\ call' = [NoCall EXCEPT !.op = "UpdateAddress", !.err = r.err,
                                      !.held = call.held, !.read = read]
    /\ UNCHANGED <<customers, documents, statusChanges, wk, resp>>

NextStore ==
    \/ DirectCreateCustomer
    \/ DirectAddAddress
    \/ DirectGetCustomerAddresses
    \/ DirectUpdateAddress

SpecStore == Init /\ [][NextStore]_vars

(* ---- several customers: concurrent creates, updates and reads -------- *)

\* the readings of the clock at which customer numbers are generated
Clock == {1, 2}

\* create requests that differ in the (valid) tax identifier only
TaxIDCreateRequests ==
    {ValidCreateRequest, [ValidCreateRequest EXCEPT !.taxId = TaxIDLetters]}

NextCreate ==
    \/ \E w \in Workers, req \in TaxIDCreateRequests, id \in UUIDs, now \in Clock :
            CreateCustomer(w, req, id, now)
    \/ \E w \in Workers, id \in UUIDs, version \in RequestVersions \ {0} :
            UpdateCustomerLoad(w, id, version, "ada.l@example.com", "", 0)
    \/ \E w \in Workers : UpdateCustomerWrite(w)
    \/ \E w \in Workers, id \in UUIDs : GetCustomer(w, id)

SpecCreate == Init /\ [][NextCreate]_vars

(* --------------- AddAddress on a database that can fail ---------------- *)

\* the errors ExecContext returns to the INSERT of an address
ExecErrors == {"nil", "connection reset"}

\* A single client that creates customers and adds addresses, one request
\* at a time, on a database that can fail the INSERT of the address.
NextAddress ==
    \/ ClientReceive
    \/ (resp = NoResponse /\
            \E id \in UUIDs, now \in Clock : CreateCustomer(1, ValidCreateRequest, id, now))
    \/ (resp = NoResponse /\
            \E id \in UUIDs, isPrimary \in BOOLEAN, street1 \in Streets :
                AddAddressLoad(1, id, isPrimary, street1))
    \/ AddAddressList(1)
    \/ AddAddressUnset(1)
    \/ \E execErr \in ExecErrors : AddAddressInsert(1, execErr)

SpecAddress == Init /\ [][NextAddress]_vars

(* ------------------- the Encryptor, called directly ------------------- *)
(* Strings and byte slices are sequences of bytes (0..255); a base64       *)
(* string is the sequence of the alphabet indices of its characters        *)
(* (0..63), with Pad for '='.  AES-GCM is modelled as an authenticated     *)
(* cipher whose tag separates any two keys: a keystream added to the       *)
(* plaintext, followed by a keyed tag of one byte per key byte.            *)

\* gcm.NonceSize()
NonceSize == 12

\* the '=' of base64.StdEncoding
Pad == 64

\* the keys of the tests: "1234...9012", "1234...9011", make([]byte, 32),
\* "short-key", and keys of the other AES widths and of 31 and 33 bytes
KeyA == [i \in 1..32 |-> 48 + (i % 10)]
KeyB == [KeyA EXCEPT ![32] = 49]
KeyC == [i \in 1..32 |-> 0]
EncryptionKeys == {KeyA, KeyB, KeyC}
OtherKeys ==
    {<< >>, <<115, 104, 111, 114, 116, 45, 107, 101, 121>>}
        \cup {[i \in 1..n |-> 48 + (i % 10)] : n \in {16, 24, 31, 33}}

\* the plaintexts: every string over two bytes up to MaxPlaintext bytes
Plaintexts == UNION {[1..n -> {97, 255}] : n \in 0..MaxPlaintext}

\* the nonces io.ReadFull(rand.Reader, nonce) can yield
Nonces == {[i \in 1..NonceSize |-> 0], [i \in 1..NonceSize |-> 16 * i + 7]}

\* strings that no Encrypt returned: "!" (not base64), "YWJjZA==" ("abcd")
ForeignCiphertexts == {<<65>>, <<24, 22, 9, 35, 25, 0, 64, 64>>}

\* a mutation of NewEncryptor: every AES key width is accepted
NewEncryptorAnyAESKey(key) ==
    IF Len(key) \notin {16, 24, 32}
    THEN [ok |-> FALSE, key |-> << >>, err |-> "encryption key must be exactly 32 bytes"]
    ELSE [ok |-> TRUE, key |-> key, err |-> "nil"]

\* NewEncryptor: the Encryptor (ok, with its key) or the error
NewEncryptor(key) ==
    IF Len(key) # 32
    THEN [ok |-> FALSE, key |-> << >>, err |-> "encryption key must be exactly 32 bytes"]
    ELSE [ok |-> TRUE, key |-> key, err |-> "nil"]

\* base64.StdEncoding.EncodeToString
EncodeToString(data) ==
    LET n == Len(data)
        byte(k) == IF k <= n THEN data[k] ELSE 0
        char(i) ==
            LET g == (i - 1) \div 4
                p == (i - 1) % 4
                b1 == byte(3 * g + 1)
                b2 == byte(3 * g + 2)
                b3 == byte(3 * g + 3)
            IN  CASE p = 0 -> b1 \div 4
                  [] p = 1 -> (b1 % 4) * 16 + (b2 \div 16)
                  [] p = 2 -> IF 3 * g + 2 > n THEN Pad ELSE (b2 % 16) * 4 + (b3 \div 64)
                  [] p = 3 -> IF 3 * g + 3 > n THEN Pad ELSE b3 % 64
    IN  [i \in 1..(4 * ((n + 2) \div 3)) |-> char(i)]

\* base64.StdEncoding.DecodeString
DecodeString(str) ==
    LET len == Len(str)
        pads == IF len > 0 /\ str[len] = Pad
                THEN (IF len > 1 /\ str[len - 1] = Pad THEN 2 ELSE 1)
                ELSE 0
        wellFormed == /\ len % 4 = 0
                      /\ \A i \in 1..len : str[i] \in 0..Pad
                      /\ \A i \in 1..len : str[i] = Pad => i > len - pads
        sextet(i) == IF str[i] = Pad THEN 0 ELSE str[i]
        byte(k) ==
            LET g == (k - 1) \div 3
                p == (k - 1) % 3
            IN  CASE p = 0 -> sextet(4 * g + 1) * 4 + (sextet(4 * g + 2) \div 16)
                  [] p = 1 -> (sextet(4 * g + 2) % 16) * 16 + (sextet(4 * g + 3) \div 4)
                  [] p = 2 -> (sextet(4 * g + 3) % 4) * 64 + sextet(4 * g + 4)
    IN  IF wellFormed
        THEN [data |-> [k \in 1..(3 * (len \div 4) - pads) |-> byte(k)], err |-> "nil"]
        ELSE [data |-> << >>, err |-> "illegal base64 data"]

\* the byte of the keystream of key and nonce at position i
KeyStream(key, nonce, i) ==
    key[((i - 1) % Len(key)) + 1] + nonce[((i - 1) % NonceSize) + 1]

RECURSIVE SumOf(_)
\* the sum of the bytes of a slice
SumOf(bytes) ==
    IF bytes = << >> THEN 0 ELSE bytes[1] + SumOf(Tail(bytes))

\* the tag of key over nonce and the encrypted bytes
TagOf(key, nonce, body) ==
    [j \in 1..Len(key) |-> (key[j] + nonce[((j - 1) % NonceSize) + 1] + SumOf(body)) % 256]

\* gcm.Seal(dst, nonce, plaintext, nil): dst, the encrypted bytes, the tag
gcmSeal(key, dst, nonce, plaintext) ==
    LET body == [i \in 1..Len(plaintext) |->
                    (plaintext[i] + KeyStream(key, nonce, i)) % 256]
    IN  dst \o body \o TagOf(key, nonce, body)

\* a mutation of gcm.Open: the tag is not compared
gcmOpenUnauthenticated(key, nonce, ciphertext) ==
    IF Len(ciphertext) < Len(key)
    THEN [plaintext |-> << >>, err |-> "cipher: message authentication failed"]
    ELSE LET body == SubSeq(ciphertext, 1, Len(ciphertext) - Len(key))
         IN  [plaintext |-> [i \in 1..Len(body) |->
                                (body[i] + 512 - KeyStream(key, nonce, i)) % 256],
              err |-> "nil"]

\* gcm.Open(nil, nonce, ciphertext, nil)
gcmOpen(key, nonce, ciphertext) ==
    IF Len(ciphertext) < Len(key)
    THEN [plaintext |-> << >>, err |-> "cipher: message authentication failed"]
    ELSE LET body == SubSeq(ciphertext, 1, Len(ciphertext) - Len(key))
             tag == SubSeq(ciphertext, Len(ciphertext) - Len(key) + 1, Len(ciphertext))
         IN  IF tag # TagOf(key, nonce, body)
             THEN [plaintext |-> << >>, err |-> "cipher: message authentication failed"]
             ELSE [plaintext |-> [i \in 1..Len(body) |->
                                    (body[i] + 512 - KeyStream(key, nonce, i)) % 256],
                   err |-> "nil"]

\* Encryptor.Encrypt, for the nonce read from rand.Reader
Encrypt(key, plaintext, nonce) ==
    IF plaintext = << >>
    THEN [out |-> << >>, err |-> "nil"]
    ELSE [out |-> EncodeToString(gcmSeal(key, nonce, nonce, plaintext)), err |-> "nil"]

\* a mutation of Decrypt: the nonce is taken one byte short
DecryptShortNonce(key, ciphertext) ==
    LET d == DecodeString(ciphertext)
    IN  IF ciphertext = << >> THEN [out |-> << >>, err |-> "nil"]
        ELSE IF d.err # "nil" THEN [out |-> << >>, err |-> "failed to decode base64"]
        ELSE IF Len(d.data) < NonceSize THEN [out |-> << >>, err |-> "ciphertext too short"]
        ELSE LET o == gcmOpen(key, SubSeq(d.data, 1, NonceSize - 1) \o <<0>>,
                              SubSeq(d.data, NonceSize, Len(d.data)))
             IN  IF o.err # "nil" THEN [out |-> << >>, err |-> "failed to decrypt"]
                 ELSE [out |-> o.plaintext, err |-> "nil"]

\* Encryptor.Decrypt
Decrypt(key, ciphertext) ==
    LET d == DecodeString(ciphertext)
    IN  IF ciphertext = << >> THEN [out |-> << >>, err |-> "nil"]
        ELSE IF d.err # "nil" THEN [out |-> << >>, err |-> "failed to decode base64"]
        ELSE IF Len(d.data) < NonceSize THEN [out |-> << >>, err |-> "ciphertext too short"]
        ELSE LET o == gcmOpen(key, SubSeq(d.data, 1, NonceSize),
                              SubSeq(d.data, NonceSize + 1, Len(d.data)))
             IN  IF o.err # "nil" THEN [out |-> << >>, err |-> "failed to decrypt"]
                 ELSE [out |-> o.plaintext, err |-> "nil"]

\* NewEncryptor called with a key of any length
DirectNewEncryptor ==
    /\ \E key \in EncryptionKeys \cup OtherKeys :
        LET e == NewEncryptor(key)
        IN  call' = [NoCall EXCEPT !.op = "NewEncryptor", !.key = key, !.out = e.key,
                                  !.err = e.err]
    /\ UNCHANGED <<customers, addresses, documents, statusChanges, wk, resp>>

\* Encrypt called on an Encryptor
DirectEncrypt ==
    /\ \E key \in EncryptionKeys, plaintext \in Plaintexts, nonce \in Nonces :
        LET e == Encrypt(NewEncryptor(key).key, plaintext, nonce)
        IN  call' = [NoCall EXCEPT !.op = "Encrypt", !.key = key, !.plaintext = plaintext,
                                  !.out = e.out, !.err = e.err]
    /\ UNCHANGED <<customers, addresses, documents, statusChanges, wk, resp>>

\* Decrypt called, on any Encryptor, with what the last Encrypt returned or
\* with a string that no Encrypt returned
DirectDecrypt ==
    /\ \E key \in EncryptionKeys :
        \/ /\ call.op = "Encrypt"
           /\ LET d == Decrypt(NewEncryptor(key).key, call.out)
              IN  call' = [NoCall EXCEPT !.op = "Decrypt", !.key = key,
                                        !.sealKey = call.key,
                                        !.plaintext = call.plaintext,
                                        !.ciphertext = call.out,
                                        !.out = d.out, !.err = d.err]
        \/ \E ciphertext \in ForeignCiphertexts :
            LET d == Decrypt(NewEncryptor(key).key, ciphertext)
            IN  call' = [NoCall EXCEPT !.op = "Decrypt", !.key = key,
                                      !.ciphertext = ciphertext,
                                      !.out = d.out, !.err = d.err]
    /\ UNCHANGED <<customers, addresses, documents, statusChanges, wk, resp>>

NextCrypt ==
    \/ DirectNewEncryptor
    \/ DirectEncrypt
    \/ DirectDecrypt

SpecCrypt == Init /\ [][NextCrypt]_vars

(* ------------------- the Validator, called directly ------------------- *)

\* the readings of time.Now(): the day of Now, the last days of February
\* of a leap year and the day after
ValidationTimes ==
    {Now, Date(2028, 2, 28, 12), Date(2028, 2, 29, 12), Date(2028, 3, 1, 12)}

\* dates of birth: not set; 25 years, 18 years less a day, 18 years and 18
\* years and a day before Now; the days around 1 March 18 years and 150
\* years before the leap year; 150 years and more before Now
DatesOfBirth ==
    {0, AddDate(Now, -25),
     Date(2008, 11, 2, 12), Date(2008, 11, 1, 12), Date(2008, 10, 31, 12),
     Date(2010, 2, 28, 12), Date(2010, 3, 1, 0), Date(2010, 3, 1, 12), Date(2010, 3, 2, 0),
     Date(1878, 3, 1, 0), Date(1876, 11, 1, 12), Date(1876, 10, 31, 12),
     Date(1850, 1, 1, 0)}

\* ValidateCustomerCreate called with a request whose other fields pass
DirectValidateCustomerCreate ==
    /\ \E now \in ValidationTimes, dateOfBirth \in DatesOfBirth :
        call' = [NoCall EXCEPT
                    !.op = "ValidateCustomerCreate", !.now = now,
                    !.dateOfBirth = dateOfBirth,
                    !.errs = ValidateCustomerCreate(
                                [ValidCreateRequest EXCEPT !.dateOfBirth = dateOfBirth],
                                now)]
    /\ UNCHANGED <<customers, addresses, documents, statusChanges, wk, resp>>

\* ValidateDocument called with a request whose other fields pass: the
\* dates are not set, in the past, the validation time or in the future
DirectValidateDocument ==
    /\ \E now \in ValidationTimes :
        \E issueDate \in {0, AddDate(now, -2), now, AddDate(now, 5)},
           expiryDate \in {0, AddDate(now, -1), now, AddDate(now, 5), AddDate(now, 10)} :
            call' = [NoCall EXCEPT
                        !.op = "ValidateDocument", !.now = now,
                        !.issueDate = issueDate, !.expiryDate = expiryDate,
                        !.errs = ValidateDocument("c1", "Passport", issueDate,
                                                  expiryDate, now)]
    /\ UNCHANGED <<customers, addresses, documents, statusChanges, wk, resp>>

NextValidate ==
    \/ DirectValidateCustomerCreate
    \/ DirectValidateDocument

SpecValidate == Init /\ [][NextValidate]_vars

(* ----- one client that creates customers and updates dates of birth ---- *)

\* one client sends CreateCustomer and UpdateCustomer requests that differ
\* in the date of birth alone, each after the response to the one before
NextBirth ==
    \/ ClientReceive
    \/ (resp = NoResponse /\
            \E id \in UUIDs, now \in Clock, dateOfBirth \in DatesOfBirth :
                CreateCustomer(1, [ValidCreateRequest EXCEPT !.dateOfBirth = dateOfBirth],
                               id, now))
    \/ (resp = NoResponse /\
            \E id \in UUIDs, dateOfBirth \in DatesOfBirth :
                UpdateCustomerLoad(1, id, 1, "", "", dateOfBirth))
    \/ UpdateCustomerWrite(1)

SpecBirth == Init /\ [][NextBirth]_vars

(* ------------------------------ properties ---------------------------- *)

\* the step in which worker w's handler issues repo.UpdateCustomer
IsCustomerWrite(w) ==
    /\ wk[w].pc \in {"UC_update", "UCS_update", "AD_update"}
    /\ wk'[w].pc = "idle"

\* the primary addresses of customer c
PrimaryAddresses(c) ==
    {a \in DOMAIN addresses : addresses[a].customerId = c /\ addresses[a].isPrimary}

\* C1: Record Store UpdateCustomer, called with a customer object whose
\* version differs from the version of the persisted row, returns the
\* optimistic-lock error and leaves the customers table as it was, whatever
\* creates and updates came before.
C1_StaleUpdateRejected ==
    [][(/\ call'.op = "UpdateCustomer"
        /\ call'.arg.id \in DOMAIN customers
        /\ customers[call'.arg.id].version # call'.arg.version)
       => (call'.err = "ErrOptimisticLock" /\ customers' = customers)]_vars

\* a stale update was rejected on a row that earlier updates had advanced
C1_Witness ==
    /\ call.op = "UpdateCustomer"
    /\ call.err = "ErrOptimisticLock"
    /\ call.arg.id \in DOMAIN customers
    /\ customers[call.arg.id].version > 1
    /\ customers[call.arg.id].version # call.arg.version

\* C2: an Orchestrator UpdateCustomer whose request carries a version other
\* than the persisted version of the customer is answered Aborted and does
\* not change the row.
C2_StaleRequestRejected ==
    [][\A w \in Workers :
        (/\ wk[w].pc = "UC_update"
         /\ wk'[w].pc = "idle"
         /\ wk[w].version # customers[wk[w].id].version)
        => (resp'.code = "Aborted" /\ customers' = customers)]_vars

\* C3: of the writers that read a customer at version v, the one whose
\* update finds the row still at v succeeds and takes it to v + 1, after
\* which every other pending writer of that customer holds an older version;
\* a writer that finds the row at another version gets the optimistic-lock
\* error and changes nothing.
C3_SingleWinnerPerVersion ==
    [][\A w \in Workers :
        IsCustomerWrite(w) =>
            LET id == wk[w].id
                v == wk[w].customer.version
            IN  IF customers[id].version = v
                THEN /\ resp'.repoErr = "nil"
                     /\ customers'[id] = RowOf([wk[w].customer EXCEPT !.version = v + 1])
                     /\ \A u \in Workers \ {w} :
                            (wk'[u].pc \in {"UC_update", "UCS_update", "AD_update"}
                                /\ wk'[u].id = id)
                            => wk'[u].customer.version < customers'[id].version
                ELSE /\ resp'.repoErr = "ErrOptimisticLock"
                     /\ customers' = customers]_vars

\* a writer lost the race: its update was rejected, and the row is one
\* version past the one it had read
C3_Witness ==
    /\ resp.repoErr = "ErrOptimisticLock"
    /\ resp.op \in {"UpdateCustomer", "UpdateCustomerStatus", "AddDocument"}
    /\ customers[resp.id].version > 1

\* C4: a customer row is created at version 1; afterwards each step either
\* leaves the row as it is or raises its version by exactly 1, a successful
\* UpdateCustomer or UpdateCustomerStatus raises it, and a handler that
\* returns an error changes no customer row.
C4_VersionSteps ==
    [][/\ \A c \in CustomerIDs :
            /\ (c \notin DOMAIN customers /\ c \in DOMAIN customers')
                    => customers'[c].version = 1
            /\ c \in DOMAIN customers
                    => /\ c \in DOMAIN customers'
                       /\ \/ customers'[c] = customers[c]
                          \/ customers'[c].version = customers[c].version + 1
       /\ (resp'.op \in {"UpdateCustomer", "UpdateCustomerStatus"} /\ resp'.code = "OK")
            => customers'[resp'.id].version = customers[resp'.id].version + 1
       /\ resp'.code \notin {"", "OK"} => customers' = customers]_vars

\* a row has been created and updated twice
C4_Witness ==
    \E c \in DOMAIN customers :
        /\ customers[c].version = 3
        /\ resp.code = "OK"
        /\ resp.op \in {"UpdateCustomer", "UpdateCustomerStatus", "AddDocument"}

\* the allowed-transition table
AllowedEdges ==
    {<<"Pending", "Active">>, <<"Pending", "Closed">>,
     <<"Active", "Inactive">>, <<"Active", "Suspended">>, <<"Active", "Closed">>,
     <<"Inactive", "Active">>, <<"Inactive", "Suspended">>, <<"Inactive", "Closed">>,
     <<"Suspended", "Active">>, <<"Suspended", "Inactive">>, <<"Suspended", "Closed">>}

\* C5: ValidateStatusTransition(current, requested) succeeds exactly for the
\* pairs of the allowed-transition table; self-transitions and transitions
\* from Closed fail.
C5_TransitionTable ==
    call.op = "ValidateStatusTransition" =>
        /\ (call.err = "nil") <=> (<<call.currentStatus, call.newStatus>> \in AllowedEdges)
        /\ call.currentStatus = call.newStatus => call.err # "nil"
        /\ call.currentStatus = "Closed" => call.err # "nil"

\* a transition from Closed was validated, and refused
C5_Witness ==
    /\ call.op = "ValidateStatusTransition"
    /\ call.currentStatus = "Closed"
    /\ call.newStatus = "Active"
    /\ call.err # "nil"

\* C6: once the persisted status of a customer is Closed, no step of any
\* handler changes it.
C6_ClosedIsTerminal ==
    [][\A c \in DOMAIN customers :
        customers[c].status = "Closed"
            => (c \in DOMAIN customers' /\ customers'[c].status = "Closed")]_vars

\* an auto-activation decided while the customer was Pending reached the
\* store after the customer had been closed
C6_Witness ==
    /\ resp.op = "AddDocument"
    /\ resp.code = "Internal"
    /\ customers[resp.id].status = "Closed"

\* C7: a successful UpdateCustomerStatus leaves, in the persisted store, a
\* StatusChange record with the previous and the new status of that call.
C7_AuditRecordPersisted ==
    (resp.op = "UpdateCustomerStatus" /\ resp.code = "OK")
    => \E sc \in statusChanges :
            /\ sc.customerId = resp.id
            /\ sc.previousStatus = resp.previousStatus
            /\ sc.newStatus = resp.newStatus

\* C8: no customer ever has two persisted primary addresses.
C8_AtMostOnePrimary ==
    \A c \in CustomerIDs : Cardinality(PrimaryAddresses(c)) <= 1

\* C9: an AddAddress without is_primary that found no primary address for
\* the customer persists its address as primary.
C9_FirstAddressIsPrimary ==
    (/\ resp.op = "AddAddress"
     /\ resp.code = "OK"
     /\ ~resp.reqIsPrimary
     /\ ~resp.hadPrimary)
    => /\ resp.newId \in DOMAIN addresses
       /\ addresses[resp.newId].customerId = resp.id
       /\ addresses[resp.newId].isPrimary

\* the first address of a customer was added without is_primary
C9_Witness ==
    /\ resp.op = "AddAddress"
    /\ resp.code = "OK"
    /\ ~resp.reqIsPrimary
    /\ ~resp.hadPrimary
    /\ {a \in DOMAIN addresses : addresses[a].customerId = resp.id} = {resp.newId}

\* C10: when an AddAddress with is_primary that found a primary address
\* returns, and no other AddAddress for the customer ran meanwhile, the new
\* address is the only primary address of the customer.
C10_NewPrimaryReplacesOld ==
    (/\ resp.op = "AddAddress"
     /\ resp.code = "OK"
     /\ resp.reqIsPrimary
     /\ resp.hadPrimary
     /\ ~resp.overlap)
    => PrimaryAddresses(resp.id) = {resp.newId}

\* a second address was added as primary, alone, to a customer that had a
\* primary address
C10_Witness ==
    /\ resp.op = "AddAddress"
    /\ resp.code = "OK"
    /\ resp.reqIsPrimary
    /\ resp.hadPrimary
    /\ ~resp.overlap
    /\ Cardinality({a \in DOMAIN addresses : addresses[a].customerId = resp.id}) >= 2

\* the identity-bearing document types
IdentityBearingTypes == {"Passport", "DriversLicense", "NationalID", "SSN"}

\* customer c has a persisted document that is verified and identity-bearing
HasVerifiedIdentityDocument(db, c) ==
    \E d \in DOMAIN db :
        /\ db[d].customerId = c
        /\ db[d].verificationStatus = "Verified"
        /\ db[d].documentType \in IdentityBearingTypes

\* the step in which worker w's AddDocument returns success
IsAddDocumentSuccess(w) ==
    /\ wk[w].op = "AddDocument"
    /\ wk'[w].pc = "idle"
    /\ resp'.code = "OK"

\* C11: when an AddDocument returns success for a customer whose persisted
\* status was Pending, and the documents of the customer, the new one
\* included, hold a verified document of an identity-bearing type, the
\* persisted status is Active and the version is one more than before.
C11_AutoActivation ==
    [][\A w \in Workers :
        (/\ IsAddDocumentSuccess(w)
         /\ customers[wk[w].id].status = "Pending"
         /\ HasVerifiedIdentityDocument(documents', wk[w].id))
        => /\ customers'[wk[w].id].status = "Active"
           /\ customers'[wk[w].id].version = customers[wk[w].id].version + 1]_vars

\* an AddDocument found a verified passport and activated the customer
C11_Witness ==
    /\ resp.op = "AddDocument"
    /\ resp.code = "OK"
    /\ resp.previousStatus = "Pending"
    /\ resp.newStatus = "Active"
    /\ customers[resp.id].status = "Active"
    /\ customers[resp.id].version = 2
    /\ HasVerifiedIdentityDocument(documents, resp.id)

\* the document the single client's AddDocument has inserted: the newest row
AddedDocument == Cardinality(DOMAIN documents')

\* the documents of customer c other than d that are verified and
\* identity-bearing
OtherVerifiedIdentityDocuments(db, c, d) ==
    {x \in DOMAIN db \ {d} :
        /\ db[x].customerId = c
        /\ db[x].verificationStatus = "Verified"
        /\ db[x].documentType \in IdentityBearingTypes}

C13_NoActivationWithoutIdentity ==
    [][(/\ wk[1].op = "AddDocument"
        /\ wk'[1] # wk[1]
        /\ customers[wk[1].id].status = "Pending"
        /\ ~HasVerifiedIdentityDocument(documents', wk[1].id))
       => customers' = customers]_vars

\* an AddDocument returned for a Pending customer whose only document is a
\* verified tax id document, and the customer is as created
C13_Witness ==
    /\ resp.op = "AddDocument"
    /\ resp.code = "OK"
    /\ customers[resp.id].status = "Pending"
    /\ customers[resp.id].version = 1
    /\ DOMAIN documents = {1}
    /\ documents[1].documentType = "TaxID"
    /\ documents[1].verificationStatus = "Verified"

\* C14: a customer row that CreateCustomer inserts has status Pending and
\* version 1 in the state that follows the insert, and a CreateCustomer that
\* returns success has inserted the row it returns.
C14_CreatedPendingAtVersionOne ==
    [][/\ \A c \in CustomerIDs :
            (c \notin DOMAIN customers /\ c \in DOMAIN customers')
            => /\ customers'[c].status = "Pending"
               /\ customers'[c].version = 1
               /\ resp'.op = "CreateCustomer" /\ resp'.code = "OK" /\ resp'.id = c
       /\ (resp'.op = "CreateCustomer" /\ resp'.code = "OK")
            => (resp'.id \notin DOMAIN customers /\ resp'.id \in DOMAIN customers')]_vars

\* a customer was created from a request other than the standard one
C14_Witness ==
    /\ resp.op = "CreateCustomer"
    /\ resp.code = "OK"
    /\ resp.id \in DOMAIN customers
    /\ customers[resp.id].status = "Pending"
    /\ customers[resp.id].email = "ada.l@example.com"
    /\ customers[resp.id].version = 1

\* C15: the CreateCustomer request of the example (valid names and email,
\* an adult's date of birth, tax identifier "123-45-6789") succeeds and
\* returns a customer with status Pending and version 1.
C15_ExampleRequestSucceeds ==
    [][(\E id \in CustomerIDs : CreateCustomer(1, ExampleCreateRequest, id, 1))
       => /\ resp'.code = "OK"
          /\ resp'.id \in DOMAIN customers'
          /\ customers'[resp'.id].status = "Pending"
          /\ customers'[resp'.id].version = 1]_vars

\* C16: a response to a call whose repo.UpdateCustomer reported the
\* optimistic-lock error carries the code Aborted, in UpdateCustomer,
\* UpdateCustomerStatus and the auto-activation of AddDocument alike.
C16_LockCollisionIsAborted ==
    resp.repoErr = "ErrOptimisticLock" => resp.code = "Aborted"

\* a step that takes up a request of the client for op: the client holds no
\* response, and the step answers the request or leaves it with the worker
RequestStep(op) ==
    /\ resp = NoResponse
    /\ (resp'.op = op \/ wk'[1].op = op)

\* C17: an UpdateCustomerStatus for an existing customer that asks for a
\* status to which the allowed-transition table has no edge from the
\* persisted status is answered FailedPrecondition and changes no customer
\* row.
C17_IllegalTransitionRefused ==
    [][RequestStep("UpdateCustomerStatus") =>
        \A id \in CustomerIDs, newStatus \in Statuses \cup {"Frozen"} :
            (/\ id \in DOMAIN customers
             /\ <<customers[id].status, newStatus>> \notin AllowedEdges
             /\ UpdateCustomerStatusLoad(1, id, newStatus, "kyc"))
            => (resp'.code = "FailedPrecondition" /\ customers' = customers)]_vars

\* a status change was refused for a customer that had been closed at
\* version 2
C17_Witness ==
    /\ resp.op = "UpdateCustomerStatus"
    /\ resp.code = "FailedPrecondition"
    /\ customers[resp.id].status = "Closed"
    /\ customers[resp.id].version = 2

\* the persisted state: every table
persisted == <<customers, addresses, documents, statusChanges>>

\* the malformed values of the requests
BadEmail == "ada.example.com"
BadPhone == "0155"
BadDocumentType == "Selfie"
BadStatus == "Frozen"

\* C18: a CreateCustomer, UpdateCustomer, AddAddress, AddDocument,
\* SearchCustomers or UpdateCustomerStatus request that breaks a validation
\* rule is answered InvalidArgument (no step that takes up such a request
\* ends without that answer), and a step that answers InvalidArgument leaves
\* every table as it was.
C18_InvalidRequestWritesNothing ==
    [][/\ resp'.code = "InvalidArgument" => persisted' = persisted
       /\ (RequestStep("CreateCustomer") /\ resp'.code # "InvalidArgument") =>
            \A req \in CreateRequests :
                (req.firstName \in {"", "A"} \/ req.lastName = ""
                    \/ req.email \in {"", BadEmail}
                    \/ req.dateOfBirth \in {0, AddDate(Now, -10), Date(1850, 1, 1, 0)}
                    \/ req.taxId = TaxIDShort)
                => \A id \in CustomerIDs : ~CreateCustomer(1, req, id, 1)
       /\ (RequestStep("UpdateCustomer") /\ resp'.code # "InvalidArgument") =>
            \A id \in RequestIDs, version \in RequestVersions,
               email \in Emails \cup {"", BadEmail}, phone \in {"", BadPhone} :
                (id = "" \/ version = 0 \/ email = BadEmail \/ phone = BadPhone)
                => ~UpdateCustomerLoad(1, id, version, email, phone, 0)
       /\ (RequestStep("UpdateCustomerStatus") /\ resp'.code # "InvalidArgument") =>
            \A id \in RequestIDs, newStatus \in Statuses \cup {"", BadStatus},
               reason \in {"", "kyc"} :
                (id = "" \/ newStatus = "" \/ reason = "")
                => ~UpdateCustomerStatusLoad(1, id, newStatus, reason)
       /\ (RequestStep("AddAddress") /\ resp'.code # "InvalidArgument") =>
            \A id \in RequestIDs, isPrimary \in BOOLEAN, street1 \in Streets \cup {""} :
                (id = "" \/ street1 = "") => ~AddAddressLoad(1, id, isPrimary, street1)
       /\ (RequestStep("AddDocument") /\ resp'.code # "InvalidArgument") =>
            \A id \in RequestIDs, documentType \in DocumentTypes \cup {"", BadDocumentType},
               expiryDate \in {ExpiryDate, ExpiredDate} :
                (id = "" \/ documentType \in {"", BadDocumentType}
                    \/ expiryDate = ExpiredDate)
                => ~AddDocumentLoad(1, id, documentType, IssueDate, expiryDate)
       /\ (RequestStep("SearchCustomers") /\ resp'.code # "InvalidArgument") =>
            \A limit \in {-1, 0, 10, 101}, offset \in {-1, 0},
               status \in {"", "Active", BadStatus},
               email \in {"", "ada@example.com", BadEmail} :
                (limit < 0 \/ limit > 100 \/ offset < 0 \/ status = BadStatus
                    \/ email = BadEmail)
                => ~SearchCustomers(1, limit, offset, status, email)]_vars

\* an address request without street1 was refused for a customer that has
\* an address
C18_Witness ==
    /\ resp.op = "AddAddress"
    /\ resp.code = "InvalidArgument"
    /\ resp.fields = <<"street1">>
    /\ resp.id \in DOMAIN customers
    /\ \E a \in DOMAIN addresses : addresses[a].customerId = resp.id

\* C19: an InvalidArgument response names every field of the request that
\* breaks a validation rule: those of an UpdateCustomerStatus request
\* without id, new_status or reason, of an UpdateCustomer request and of an
\* AddAddress request.
C19_EveryViolatedFieldNamed ==
    [][/\ \A id \in RequestIDs, newStatus \in Statuses \cup {"", BadStatus}, reason \in {"", "kyc"} :
            UpdateCustomerStatusLoad(1, id, newStatus, reason)
            => /\ id = "" => "id" \in Range(resp'.fields)
               /\ newStatus = "" => "new_status" \in Range(resp'.fields)
               /\ reason = "" => "reason" \in Range(resp'.fields)
       /\ \A id \in RequestIDs, version \in RequestVersions, email \in Emails \cup {"", BadEmail} :
            UpdateCustomerLoad(1, id, version, email, "", 0)
            => /\ id = "" => "id" \in Range(resp'.fields)
               /\ version = 0 => "version" \in Range(resp'.fields)
               /\ email = BadEmail => "email" \in Range(resp'.fields)
       /\ \A id \in RequestIDs, isPrimary \in BOOLEAN, street1 \in Streets \cup {""} :
            AddAddressLoad(1, id, isPrimary, street1)
            => /\ id = "" => "customer_id" \in Range(resp'.fields)
               /\ street1 = "" => "street1" \in Range(resp'.fields)]_vars

\* C20: a GetCustomer, UpdateCustomer, AddAddress, AddDocument,
\* UpdateCustomerStatus or GetCustomerFullProfile request that is valid and
\* carries a well-formed identifier of no persisted customer is answered
\* NotFound and leaves every table as it was.
C20_UnknownCustomerNotFound ==
    [][/\ RequestStep("GetCustomer") =>
            \A id \in UUIDs \ DOMAIN customers :
                GetCustomer(1, id)
                => (resp'.code = "NotFound" /\ persisted' = persisted)
       /\ RequestStep("GetCustomerFullProfile") =>
            \A id \in UUIDs \ DOMAIN customers :
                GetCustomerFullProfileLoad(1, id)
                => (resp'.code = "NotFound" /\ persisted' = persisted)
       /\ RequestStep("UpdateCustomer") =>
            \A id \in UUIDs \ DOMAIN customers, version \in RequestVersions \ {0},
               email \in Emails \cup {""} :
                UpdateCustomerLoad(1, id, version, email, "", 0)
                => (resp'.code = "NotFound" /\ persisted' = persisted)
       /\ RequestStep("UpdateCustomerStatus") =>
            \A id \in UUIDs \ DOMAIN customers, newStatus \in Statuses :
                UpdateCustomerStatusLoad(1, id, newStatus, "kyc")
                => (resp'.code = "NotFound" /\ persisted' = persisted)
       /\ RequestStep("AddAddress") =>
            \A id \in UUIDs \ DOMAIN customers, isPrimary \in BOOLEAN, street1 \in Streets :
                AddAddressLoad(1, id, isPrimary, street1)
                => (resp'.code = "NotFound" /\ persisted' = persisted)
       /\ RequestStep("AddDocument") =>
            \A id \in UUIDs \ DOMAIN customers, documentType \in DocumentTypes :
                AddDocumentLoad(1, id, documentType, IssueDate, ExpiryDate)
                => (resp'.code = "NotFound" /\ persisted' = persisted)]_vars

\* a document request for an unknown customer was answered NotFound while
\* another customer existed
C20_Witness ==
    /\ resp.op = "AddDocument"
    /\ resp.code = "NotFound"
    /\ resp.id = "c0"
    /\ DOMAIN customers # {}

\* C21: a successful UpdateCustomer leaves the customer with the request's
\* value in every field the request carries and with the value persisted
\* before the write in every field the request leaves empty; the status is
\* not touched.
C21_PartialUpdate ==
    [][\A w \in Workers :
        (wk[w].pc = "UC_update" /\ wk'[w].pc = "idle" /\ resp'.code = "OK")
        => LET before == customers[wk[w].id]
               after == customers'[wk[w].id]
           IN  /\ after.email = (IF wk[w].email # "" THEN wk[w].email ELSE before.email)
               /\ after.phone = (IF wk[w].phone # "" THEN wk[w].phone ELSE before.phone)
               /\ after.status = before.status]_vars

\* an update that carried a phone number and no e-mail address succeeded on
\* a customer whose e-mail address had been changed before
C21_Witness ==
    /\ resp.op = "UpdateCustomer"
    /\ resp.code = "OK"
    /\ customers[resp.id].phone \in Phones
    /\ customers[resp.id].email = "ada.l@example.com"
    /\ customers[resp.id].version = 3

\* C22: a Record Store update addressed to a customer by an identifier that
\* no row has returns ErrNotFound.
C22_MissingRowIsNotFound ==
    (call.op = "UpdateCustomer" /\ call.arg.id \notin DOMAIN customers)
        => call.err = "ErrNotFound"

\* C23: an UpdateAddress that writes an address object read before the row
\* was changed by another writer is rejected: it returns an error and
\* leaves the row as the other writer left it.
C23_UnsetIsVersioned ==
    [][(/\ call'.op = "UpdateAddress"
        /\ call'.read.id \in DOMAIN addresses
        /\ AddrOf(addresses, call'.read.id) # call'.read)
       => (call'.err # "nil" /\ addresses' = addresses)]_vars

\* C24: no two customers persisted have the same customer number; a
\* CreateCustomer whose generated number is the number of a persisted
\* customer fails and leaves the customers as they were.
C24_CustomerNumberUnique ==
    [][/\ \A c, d \in DOMAIN customers' :
            c # d => customers'[c].customerNumber # customers'[d].customerNumber
       /\ \A w \in Workers, req \in TaxIDCreateRequests, id \in UUIDs, now \in Clock :
            (/\ \E c \in DOMAIN customers :
                    customers[c].customerNumber = generateCustomerNumber(now)
             /\ CreateCustomer(w, req, id, now))
            => (resp'.code \notin {"", "OK"} /\ customers' = customers)]_vars

\* a create whose number collided was refused while one customer existed
C24_Witness ==
    /\ resp.op = "CreateCustomer"
    /\ resp.repoErr = "unique_violation"
    /\ resp.code = "Internal"
    /\ Cardinality(DOMAIN customers) = 1

\* the valid tax identifiers a store can hold
ValidTaxIDs == {TaxIDPlain, TaxIDLetters}

\* C25: the customer a successful response carries is the one the handler
\* would have returned from a store that differs in the tax identifier of
\* that customer only: the response does not depend on the tax identifier.
C25_TaxIDNotInResponse ==
    (resp.code = "OK" /\ resp.op \in {"CreateCustomer", "GetCustomer", "UpdateCustomer"})
    => \A t \in ValidTaxIDs :
        resp.customer = modelToProto([ObjOf(resp.id, customers[resp.id]) EXCEPT !.taxId = t])

\* a customer whose tax identifier is not the one of the other customer
\* was returned
C25_Witness ==
    /\ resp.op = "GetCustomer"
    /\ resp.code = "OK"
    /\ resp.customer.id = "c0"
    /\ customers["c0"].taxId = TaxIDLetters
    /\ "c1" \in DOMAIN customers
    /\ customers["c1"].taxId = TaxIDPlain
    /\ customers["c1"].version = customers["c0"].version

\* C26: Decrypt, on an Encryptor with the key of the Encryptor whose
\* Encrypt returned the string, returns the plaintext of that Encrypt and
\* no error, the empty plaintext included; Encrypt of the empty string
\* returns the empty string.
C26_DecryptInvertsEncrypt ==
    /\ (call.op = "Decrypt" /\ call.sealKey = call.key)
        => (call.err = "nil" /\ call.out = call.plaintext)
    /\ (call.op = "Encrypt" /\ call.plaintext = << >>)
        => (call.err = "nil" /\ call.out = << >>)

\* a plaintext of the greatest length was recovered
C26_Witness ==
    /\ call.op = "Decrypt"
    /\ call.sealKey = call.key
    /\ Len(call.plaintext) = MaxPlaintext
    /\ call.out = call.plaintext
    /\ call.ciphertext # call.plaintext

\* C27: Decrypt, on an Encryptor with a key other than the key of the
\* Encryptor whose Encrypt returned the string for a non-empty plaintext,
\* returns an error and no plaintext.
C27_WrongKeyFails ==
    (call.op = "Decrypt" /\ call.sealKey \in EncryptionKeys /\ call.sealKey # call.key
        /\ call.plaintext # << >>)
    => (call.err # "nil" /\ call.out = << >>)

\* a string sealed under "1234...9012" was refused under "1234...9011"
C27_Witness ==
    /\ call.op = "Decrypt"
    /\ call.sealKey = KeyA
    /\ call.key = KeyB
    /\ call.plaintext # << >>
    /\ call.err = "failed to decrypt"

\* C28: NewEncryptor returns an Encryptor and no error for a key of 32
\* bytes, and an error and no Encryptor for a key of any other length.
C28_KeyLength ==
    call.op = "NewEncryptor"
    => /\ (call.err = "nil") <=> (Len(call.key) = 32)
       /\ (call.err = "nil") => call.out = call.key
       /\ (call.err # "nil") => call.out = << >>

\* a key of 16 bytes, which AES accepts, was refused
C28_Witness ==
    /\ call.op = "NewEncryptor"
    /\ Len(call.key) = 16
    /\ call.err # "nil"

\* the same place of the calendar, years earlier: 29 February stays between
\* 28 February and 1 March in a year that has none
YearsBefore(t, years) == t - years * 1000000

\* C29: ValidateCustomerCreate reports a date of birth later than the
\* validation time minus 18 years (the only error of the date of birth such
\* a date can have is the at-least-18 error), and reports nothing for a
\* date of birth that is not later than the validation time minus 18 years
\* and not earlier than the validation time minus 150 years.
C29_AgeAtCreation ==
    (call.op = "ValidateCustomerCreate" /\ call.dateOfBirth # 0)
    => /\ call.dateOfBirth > YearsBefore(call.now, 18)
            => call.errs = <<"date_of_birth">>
       /\ (call.dateOfBirth <= YearsBefore(call.now, 18)
                /\ call.dateOfBirth >= YearsBefore(call.now, 150))
            => call.errs = << >>

\* C30: ValidateDocument reports the expiry date of every document that
\* does not expire strictly after the validation time, and of every
\* document that does not expire strictly after its issue date.
C30_ExpiryStrictlyLater ==
    (call.op = "ValidateDocument" /\ call.expiryDate # 0)
    => /\ call.expiryDate <= call.now => "expiry_date" \in Range(call.errs)
       /\ (call.issueDate # 0 /\ call.expiryDate <= call.issueDate)
            => "expiry_date" \in Range(call.errs)

\* C31: in every interleaving of UpdateCustomerStatus, AddDocument and
\* UpdateCustomer, a step that changes the persisted status of a customer
\* takes it along an edge of the allowed-transition table, and a write of a
\* handler whose object was read at a version the row no longer has changes
\* nothing.
C31_StatusFollowsEdges ==
    [][/\ \A c \in DOMAIN customers :
            (c \in DOMAIN customers' /\ customers'[c].status # customers[c].status)
            => <<customers[c].status, customers'[c].status>> \in AllowedEdges
       /\ \A w \in Workers :
            (IsCustomerWrite(w) /\ customers[wk[w].id].version # wk[w].customer.version)
            => customers' = customers]_vars

\* an UpdateCustomerStatus decided on a status the row has left, towards a
\* status the row could not go to, was refused
C31_Witness ==
    /\ resp.op = "UpdateCustomerStatus"
    /\ resp.repoErr = "ErrOptimisticLock"
    /\ customers[resp.id].status # resp.previousStatus
    /\ <<resp.previousStatus, resp.newStatus>> \in AllowedEdges
    /\ <<customers[resp.id].status, resp.newStatus>> \notin AllowedEdges

\* C32: a Record Store UpdateCustomer that returns the optimistic-lock error
\* leaves the version of the caller's customer object as the caller
\* supplied it, and an UpdateCustomer repeated with that object, without a
\* reload, returns the optimistic-lock error again and changes no row.
C32_FailedUpdateKeepsVersion ==
    [][/\ (call'.op = "UpdateCustomer" /\ call'.err = "ErrOptimisticLock")
            => call'.obj.version = call'.arg.version
       /\ (call'.op = "UpdateCustomer" /\ call'.retry)
            => (call'.err = "ErrOptimisticLock" /\ customers' = customers)]_vars

\* the addresses of customer c
AddressesOf(c) == {a \in DOMAIN addresses : addresses[a].customerId = c}

\* C33: with one AddAddress at a time, an AddAddress with is_primary that
\* fails at the insert after it has unset the primary address of the
\* customer leaves the customer with an address and without a primary
\* address, and no customer ever has two primary addresses.
C33_FailedInsertLeavesNoPrimary ==
    /\ (/\ resp.op = "AddAddress"
        /\ resp.code = "Internal"
        /\ resp.reqIsPrimary
        /\ resp.hadPrimary)
       => (AddressesOf(resp.id) # {} /\ PrimaryAddresses(resp.id) = {})
    /\ \A c \in UUIDs : Cardinality(PrimaryAddresses(c)) <= 1

\* the insert of a second, primary address failed and the first address,
\* the only one of the customer, is no longer primary
C33_Witness ==
    /\ resp.op = "AddAddress"
    /\ resp.code = "Internal"
    /\ resp.reqIsPrimary
    /\ resp.hadPrimary
    /\ Cardinality(AddressesOf(resp.id)) = 1
    /\ PrimaryAddresses(resp.id) = {}

\* the step in which worker w's AddDocument fails at the auto-activation
IsFailedActivation(w) ==
    /\ wk[w].pc = "AD_update"
    /\ wk'[w].pc = "idle"
    /\ resp'.code # "OK"

\* C34 as stated: when an AddDocument fails at the auto-activation, the
\* document it inserted is persisted with verification status Pending, and
\* the customer row is the one the concurrent writer wrote.
C34_FailedActivationKeepsPendingDocument ==
    [][\A w \in Workers :
        IsFailedActivation(w)
        => /\ wk[w].docId \in DOMAIN documents'
           /\ documents'[wk[w].docId].customerId = wk[w].id
           /\ documents'[wk[w].docId].verificationStatus = "Pending"
           /\ customers' = customers
           /\ customers[wk[w].id].version # wk[w].customer.version]_vars

\* C34 amended: an AddDocument inserts its document with verification
\* status Pending; when it fails at the auto-activation it answers with an
\* error, the document is persisted as the step found it (Pending, or
\* Verified by the verification workflow meanwhile), no document and no
\* customer row is changed, and the customer row is not at the version
\* this call had read.
C34_FailedActivationKeepsDocument ==
    [][\A w \in Workers :
        /\ (wk[w].pc = "AD_insert" /\ wk'[w].pc # "AD_insert")
            => /\ AddedDocument \notin DOMAIN documents
               /\ documents'[AddedDocument].customerId = wk[w].id
               /\ documents'[AddedDocument].verificationStatus = "Pending"
        /\ IsFailedActivation(w)
            => /\ resp'.op = "AddDocument"
               /\ resp'.code \notin {"", "OK"}
               /\ wk[w].docId \in DOMAIN documents
               /\ documents[wk[w].docId].customerId = wk[w].id
               /\ documents' = documents
               /\ customers' = customers
               /\ customers[wk[w].id].version # wk[w].customer.version]_vars

\* an auto-activation failed on a row that a concurrent status change had
\* suspended after activating it, and the document is persisted
C34_Witness ==
    /\ resp.op = "AddDocument"
    /\ resp.repoErr = "ErrOptimisticLock"
    /\ resp.newId \in DOMAIN documents
    /\ documents[resp.newId].customerId = resp.id
    /\ customers[resp.id].status = "Suspended"
    /\ customers[resp.id].version = 3

\* C35: no step of an AddDocument handler changes the row of a customer
\* whose persisted status is not Pending, whatever the other worker does
\* between the steps.
C35_AddDocumentLeavesNonPending ==
    [][\A w \in Workers :
        ((wk[w].op = "AddDocument" \/ wk'[w].op = "AddDocument") /\ wk'[w] # wk[w])
        => \A c \in DOMAIN customers :
            customers[c].status # "Pending"
            => (c \in DOMAIN customers' /\ customers'[c] = customers[c])]_vars

\* an auto-activation decided while the customer was Pending met the row
\* that a concurrent status change had made Inactive, and left it
C35_Witness ==
    /\ resp.op = "AddDocument"
    /\ resp.previousStatus = "Pending"
    /\ resp.newStatus = "Active"
    /\ resp.code # "OK"
    /\ customers[resp.id].status = "Inactive"

\* C36: a successful UpdateCustomer leaves the status, the customer number,
\* the identifier and the creation field of the customer's row as they were
\* just before its write, whatever the request holds and whatever the other
\* worker has written since the handler loaded the customer; no row appears
\* or disappears, and no other row changes.
C36_UpdateCustomerKeepsIdentityAndStatus ==
    [][\A w \in Workers :
        (wk[w].pc = "UC_update" /\ wk'[w].pc = "idle" /\ resp'.code = "OK")
        => /\ DOMAIN customers' = DOMAIN customers
           /\ wk[w].id \in DOMAIN customers
           /\ customers'[wk[w].id].status = customers[wk[w].id].status
           /\ customers'[wk[w].id].customerNumber = customers[wk[w].id].customerNumber
           /\ customers'[wk[w].id].createdBy = customers[wk[w].id].createdBy
           /\ \A c \in DOMAIN customers \ {wk[w].id} : customers'[c] = customers[c]]_vars

\* an UpdateCustomer succeeded on a customer that had been activated, while
\* the other worker holds a status change of that customer it has yet to
\* write, and the row keeps the status of the activation
C36_Witness ==
    /\ resp.op = "UpdateCustomer"
    /\ resp.code = "OK"
    /\ customers[resp.id].status = "Active"
    /\ customers[resp.id].version = 3
    /\ \E w \in Workers : wk[w].pc = "UCS_update" /\ wk[w].id = resp.id

\* C37: no step of an AddAddress handler whose request has is_primary unset
\* changes or removes an address row that exists, and such a handler never
\* reaches the loop that unsets primaries; when the list it read held a
\* primary address and its insert succeeds, the one row it adds is the new
\* address of the customer and is not primary, so a primary address of the
\* customer is still primary after the insert.
C37_NonPrimaryAddLeavesExisting ==
    [][\A w \in Workers :
        (wk[w].op = "AddAddress" /\ ~wk[w].reqIsPrimary /\ wk'[w] # wk[w])
        => /\ \A a \in DOMAIN addresses :
                a \in DOMAIN addresses' /\ addresses'[a] = addresses[a]
           /\ wk'[w].pc # "AA_unset"
           /\ (wk[w].pc = "AA_insert" /\ wk[w].hadPrimary /\ resp'.code = "OK")
              => /\ DOMAIN addresses' = DOMAIN addresses \cup {resp'.newId}
                 /\ resp'.newId \notin DOMAIN addresses
                 /\ addresses'[resp'.newId].customerId = wk[w].id
                 /\ addresses'[resp'.newId].isPrimary = FALSE
                 /\ {a \in DOMAIN addresses' : addresses'[a].isPrimary}
                        = {a \in DOMAIN addresses : addresses[a].isPrimary}]_vars

\* an AddAddress without is_primary found a primary address, added its own
\* as non-primary, and the customer has exactly the primary it had
C37_Witness ==
    /\ resp.op = "AddAddress"
    /\ resp.code = "OK"
    /\ ~resp.reqIsPrimary
    /\ resp.hadPrimary
    /\ resp.newId \in DOMAIN addresses
    /\ ~addresses[resp.newId].isPrimary
    /\ \E a \in DOMAIN addresses :
        /\ a # resp.newId
        /\ addresses[a].customerId = resp.id
        /\ addresses[a].isPrimary

\* C38: every date of birth in a customer row, written by CreateCustomer or
\* by UpdateCustomer, is at least 18 years and at most 150 years before the
\* time at which the request was validated.
C38_StoredDateOfBirthInWindow ==
    \A c \in DOMAIN customers :
        /\ customers[c].dateOfBirth <= YearsBefore(Now, 18)
        /\ customers[c].dateOfBirth >= YearsBefore(Now, 150)

====
